---- MODULE Spec2Model ----
(***************************************************************************)
(* h1sdr: the acquisition loop, the bounded chunk queue and the plugin     *)
(* supervisor of WebSDRControllerV2 (src/src/web_sdr/controllers/          *)
(* sdr_controller_v2.py, src/src/web_sdr/pipeline/plugin_supervisor.py),   *)
(* driven by the streaming task of src/src/web_sdr/main_v2.py.             *)
(*                                                                         *)
(* Processes:                                                              *)
(*   - the event loop: start(), stop(), and spectrum_streaming_task, which *)
(*     awaits get_spectrum_data -> run_with_supervision -> one task per    *)
(*     plugin.  Coroutines interleave only at their awaits.                *)
(*   - the acquisition threads (threading.Thread, _acquisition_worker):    *)
(*     every access to shared state is one step.                           *)
(***************************************************************************)
EXTENDS Integers, Sequences, FiniteSets, TLC

\* Queue(maxsize=10)
QueueMaxSize == 10

\* Chunks the device yields in one behaviour (chunk ids are 1..MaxReads, in
\* the order the device hands them out).
MaxReads == 12

\* Chunks the device has still to yield when a join may time out: a second
\* thread is started beside a live one only within the last MaxOverlapReads
\* chunks of a behaviour.
MaxOverlapReads == 2

\* Dispatch cycles of a behaviour in which stages may raise (SupSpec).
MaxCycles == 2

\* Thread objects that can be alive at once (each start() creates a new one).
Threads == {1, 2}

\* self.plugins of WebSDRControllerV2, in list order.
Plugins == <<"SpectrumPlugin", "WaterfallPlugin", "DemodulatorPlugin">>

PluginNames == {Plugins[i] : i \in 1..Len(Plugins)}

\* The two plugins built on the one self.spectrum_processor.
ProcessorStages == {"SpectrumPlugin", "WaterfallPlugin"}

\* None, for the optional arguments of update_config.
None == 0

\* config.fft_size, the size the controller builds its SpectrumProcessor with.
ConfigFftSize == 4096

\* config.rtlsdr_sample_rate, in kHz.
ConfigSampleRate == 2400

\* config.rtlsdr_default_freq and the default self.center_frequency of
\* SpectrumProcessor, in MHz.
DefaultCenterFrequency == 100

\* config.rtlsdr_default_gain, in dB.
DefaultGain == 40

\* The RTL-SDR range tune() accepts: 24e6 <= frequency <= 1766e6, in MHz.
MinFrequency == 24
MaxFrequency == 1766

\* Values update_config and tune() are called with: FFT sizes, sample rates
\* (kHz) and centre frequencies (MHz, inside the 24..1766 MHz tuner range).
FftSizes == {2048, ConfigFftSize}
SampleRates == {2048, ConfigSampleRate}
Frequencies == {DefaultCenterFrequency, 1420}

\* Lengths of the chunks handed to process_samples: shorter than, equal to
\* and longer than either FFT size.
ChunkLens == {1024, 4096, 239616}

\* Dispatch cycles and update_config calls of a behaviour (DspSpec).
MaxDspCycles == 2
MaxUpdates == 1

\* enable()/disable() calls of a behaviour.
MaxToggles == 1

\* audio_sample_rate of the DemodulatorPlugin of the model, in Hz: a chunk
\* of audio_sample_rate // 10 samples is a few samples long.
AudioSampleRate == 40

\* Lengths of the audio _demodulate returns for a chunk: less and more than
\* one chunk of audio.
AudioLens == {3, 5}

\* get_audio_data calls of a behaviour.
MaxPolls == 2

\* max_spectrum_clients of WebSDRConfig.
max_spectrum_clients == 10

\* WebSocket objects of a behaviour, in the order they ask to connect: one
\* more than max_spectrum_clients.
MaxSockets == 11
WebSockets == 1..MaxSockets

\* Websockets that connect and broadcasts made where broadcasts are followed.
MaxClients == 3
MaxBroadcasts == 2

\* The largest max_retries a retry is called with.
MaxRetriesArg == 3

\* tune() and set_demodulation() calls of a behaviour.
MaxCalls == 2

\* Arguments of the tune() calls: the Frequencies, one frequency below and
\* one above the tuner range (MHz); a gain (dB) or None.
TuneRequests == Frequencies \cup {10, 2000}
GainRequests == {None, 30}

\* FFT sizes the configuration paths are asked for: the FftSizes and two
\* sizes that are no power of two.
FftRequests == FftSizes \cup {1000, 3000}

\* What the device does with the writes of a tune() call.
DeviceOutcomes == {"ok", "center_freq", "gain"}

\* Arguments of the set_demodulation() calls: modes of DEMOD_MODES and one
\* that is not; None, a bandwidth below the range of each of these modes
\* and one inside it (Hz).
ModeRequests == {"AM", "FM", "SPECTRUM", "DSB"}
BandwidthRequests == {None, 1000, 10000}

VARIABLES
    is_running,          \* self.is_running
    is_connected,        \* self.is_connected
    sdr,                 \* self.sdr: "None", or "RtlSdr" (the open device)
    acquisition_thread,  \* self.acquisition_thread: 0 is None
    stopping,            \* stop() is inside acquisition_thread.join(timeout=2.0)
    pc,                  \* per thread: where _acquisition_worker is
    samples,             \* per thread: the local `samples` (a chunk id), 0 none
    handle,              \* per thread: the handle its read_samples runs on:
                         \* "none" (not reading), "open", or "closed" under it
    data_queue,          \* self.data_queue, oldest first
    chunksRead,          \* chunks the device has yielded so far
    inflight,            \* run_with_supervision calls that have not returned
    awaiting,            \* the streaming task is inside `await get_spectrum_data()`
    cycleChunk,          \* plugin_data['iq_samples'] of the latest dispatch
    process,             \* per plugin: what plugin.process() did in this cycle
    results,             \* per plugin: what its _safe_execute task handed to gather
    latest_results,      \* self.latest_results, per plugin
    total_executions,    \* PluginSupervisor.total_executions
    total_failures,      \* PluginSupervisor.total_failures
    plugin_stats,        \* PluginSupervisor.plugin_stats
    nCompleted,          \* history: dispatch cycles that stored their results
    nRaised,             \* history, per plugin: times its process() has raised
    finished,            \* plugins whose task of this cycle is done, in the
                         \* order the tasks finished
    returned,            \* the list run_with_supervision returned last
    fft_size,            \* SpectrumProcessor.fft_size
    sample_rate,         \* SpectrumProcessor.sample_rate
    center_frequency,    \* SpectrumProcessor.center_frequency
    window,              \* len(SpectrumProcessor.window)
    frequencies,         \* SpectrumProcessor.frequencies
    previous_spectrum,   \* SpectrumProcessor.previous_spectrum
    current_config,      \* WebSDRControllerV2.current_config
    update,              \* the update_config call in progress: its position,
                         \* arguments and local `updated`
    enabled,             \* per plugin: plugin.enabled
    counters,            \* per plugin: call_count, success_count,
                         \* failure_count, additions to total_processing_time
    buffers,             \* per plugin: lines/chunks appended to its buffer
    stage,               \* per plugin: where its process() is in this cycle
    job,                 \* per plugin: its executor call of this cycle
    chunk,               \* len(plugin_data['iq_samples']) of this cycle
    dcycle,              \* dispatch cycles begun on the processor
    nUpdates,            \* update_config calls made
    nToggles,            \* enable()/disable() calls made
    changed,             \* history: fft_size or sample_rate has changed since
                         \* the last process_samples call smoothed
    spectrum_data,       \* what get_spectrum_data returned last
    device,              \* the tuner: sdr.center_freq and sdr.gain
    last_call,           \* the last tune() or set_demodulation() call: its
                         \* arguments and the exception it raised, if any
    nCalls,              \* history: tune() and set_demodulation() calls made
    captured,            \* history, per chunk: sdr.center_freq when it was read
    response,            \* the tags of the spectrum response built from the
                         \* latest dispatched chunk
    config_fft_size,     \* config.fft_size
    demod_config,        \* WebSDRControllerV2.demod_config
    plugin_data,         \* plugin_data['demod_config'] of this cycle
    mode,                \* DemodulatorPlugin.mode
    bandwidth,           \* DemodulatorPlugin.bandwidth
    audio_buffer,        \* DemodulatorPlugin.audio_buffer
    audio,               \* what _demodulate returned in this cycle
    audio_result,        \* what DemodulatorPlugin.process returned in this cycle
    latest_audio,        \* the 'audio' result in self.latest_results
    appended,            \* history: every sample extended onto audio_buffer
    emitted,             \* history: the emitted chunks, concatenated
    dropped,             \* history: ids of the samples clear_buffer discarded
    delivered,           \* history: the chunks get_audio_data returned
    nPolls,              \* get_audio_data calls made
    demod_call,          \* the demodulator call in progress
    spectrum_clients,    \* WebSocketManager.spectrum_clients
    audio_clients,       \* WebSocketManager.audio_clients
    active_connections,  \* WebSocketManager.active_connections
    client_stats,        \* WebSocketManager.client_stats: messages_sent by id
    message_counts,      \* WebSocketManager.message_counts
    sockets,             \* per websocket: the state of its connection
    received,            \* history, per websocket: the broadcasts it was sent
    broadcast,           \* the broadcast_spectrum call in progress
    nConnects,           \* websockets that have asked to connect
    retry                \* the retry_async / retry_sync call in progress

vars == <<is_running, is_connected, sdr, acquisition_thread, stopping, pc,
          samples, handle, data_queue, chunksRead, inflight, awaiting,
          cycleChunk, process, results, latest_results, total_executions,
          total_failures, plugin_stats, nCompleted, nRaised, finished,
          returned, fft_size, sample_rate, center_frequency, window,
          frequencies, previous_spectrum, current_config, update, enabled,
          counters, buffers, stage, job, chunk, dcycle, nUpdates, nToggles, changed,
          spectrum_data, device, last_call, nCalls, captured, response,
          config_fft_size, demod_config, plugin_data, mode, bandwidth,
          audio_buffer, audio, audio_result, latest_audio, appended, emitted,
          dropped, delivered, nPolls, demod_call, spectrum_clients,
          audio_clients, active_connections, client_stats, message_counts,
          sockets, received, broadcast, nConnects, retry>>

controllerVars == <<is_running, is_connected, sdr, acquisition_thread, stopping>>
workerVars     == <<pc, samples, handle, chunksRead>>
consumerVars   == <<inflight, awaiting, cycleChunk, process, results,
                    latest_results, total_executions, total_failures,
                    plugin_stats, nCompleted, nRaised, finished, returned>>

dspVars        == <<fft_size, sample_rate, center_frequency, window, frequencies,
                    previous_spectrum, current_config, update, enabled,
                    counters, buffers, stage, job, chunk, dcycle, nUpdates,
                    nToggles, changed, spectrum_data>>
coreVars       == <<controllerVars, workerVars, data_queue, consumerVars>>

tuneVars       == <<device, last_call, nCalls>>
tagVars        == <<captured, response>>
audioVars      == <<demod_config, plugin_data, mode, bandwidth, audio_buffer,
                    audio, audio_result, latest_audio, appended, emitted,
                    dropped, delivered, nPolls>>
wsVars         == <<spectrum_clients, audio_clients, active_connections,
                    client_stats, message_counts, sockets, received,
                    broadcast, nConnects>>
svcVars        == <<wsVars, retry>>
ctlVars        == <<tuneVars, tagVars, config_fft_size, audioVars, demod_call, svcVars>>

\* np.fft.fftshift(np.fft.fftfreq(n, 1/sr)) + cf: n bins whose centre
\* element (index n // 2, the zero bin of fftfreq) is cf.  The array is kept
\* by its length and its centre element; the bin spacing sr / n is not.
FrequencyArray(n, sr, cf) == [len |-> n, centre |-> cf]

\* np.array([])
EmptyArray == [len |-> 0, centre |-> 0]

\* previous_spectrum = None
NoSpectrum == [len |-> 0, cycle |-> 0, stage |-> "none"]

\* An executor call that has not been submitted.
NoJob == [pc |-> "idle", n |-> 0, spectrum |-> [len |-> 0, smoothed |-> FALSE],
          frequencies |-> EmptyArray, audio |-> FALSE, error |-> FALSE]

NoUpdate == [pc |-> "idle", sample_rate |-> None, center_frequency |-> None,
             fft_size |-> None, updated |-> FALSE]

NoData == [frequencies |-> EmptyArray, spectrum |-> 0, center_frequency |-> 0]

\* No control call has been made.
NoControlCall == [op |-> "none", args |-> <<>>, error |-> "none"]

\* get_spectrum_data has built no response (it returned None).
NoResponse == [chunk |-> 0, center_frequency |-> None, sample_rate |-> None]

\* audio_samples = None
NoAudio == [mode |-> "none", bandwidth |-> None, len |-> 0]

\* No result of type 'audio'.
NoResult == [status |-> "none", mode |-> "none", audio_samples |-> <<>>]

\* self.target_chunk_size = audio_sample_rate // 10
target_chunk_size == AudioSampleRate \div 10

\* The modes _demodulate has a branch for; any other is 'Unknown demod mode'.
DemodulatedModes == {"AM", "FM", "USB", "LSB", "CW"}

\* The ids of the samples of a list.
SampleIds(list) == {list[i].id : i \in 1..Len(list)}

\* No broadcast_spectrum call is in progress.
NoBroadcast == [pc |-> "idle", message |-> 0, snapshot |-> {}, tasks |-> {},
                failed |-> {}]

\* No retry_async or retry_sync call is in progress.
NoRetry == [pc |-> "idle"]

\* No demodulator call is in progress.
NoDemodCall == [pc |-> "idle"]

\* DEMOD_MODES of config.py: per mode its default bandwidth and the range
\* set_demodulation accepts, in Hz.
DEMOD_MODES ==
    [m \in {"AM", "FM", "USB", "LSB", "CW", "SPECTRUM"} |->
       CASE m = "AM"  -> [bandwidth_default |-> 6000, bandwidth_min |-> 2000,
                          bandwidth_max |-> 15000]
         [] m = "FM"  -> [bandwidth_default |-> 15000, bandwidth_min |-> 8000,
                          bandwidth_max |-> 200000]
         [] m \in {"USB", "LSB"}
                      -> [bandwidth_default |-> 2700, bandwidth_min |-> 1500,
                          bandwidth_max |-> 4000]
         [] m = "CW"  -> [bandwidth_default |-> 500, bandwidth_min |-> 100,
                          bandwidth_max |-> 1000]
         [] OTHER     -> [bandwidth_default |-> 2400000, bandwidth_min |-> 10000,
                          bandwidth_max |-> 2400000]]

\* A thread is alive from Thread.start() until _acquisition_worker returns.
Alive(t) == pc[t] \notin {"none", "exited", "read_error", "queue_error"}

AliveThreads == {t \in Threads : Alive(t)}

\* WebSDRControllerV2.__init__ and PluginSupervisor.__init__
Init ==
    /\ is_running = FALSE
    /\ is_connected = FALSE
    /\ sdr = "None"
    /\ acquisition_thread = 0
    /\ stopping = FALSE
    /\ pc = [t \in Threads |-> "none"]
    /\ samples = [t \in Threads |-> 0]
    /\ handle = [t \in Threads |-> "none"]
    /\ data_queue = <<>>
    /\ chunksRead = 0
    /\ inflight = 0
    /\ awaiting = FALSE
    /\ cycleChunk = 0
    /\ process = [p \in PluginNames |-> "idle"]
    /\ results = [p \in PluginNames |-> "none"]
    /\ latest_results = [p \in PluginNames |-> "none"]
    /\ total_executions = 0
    /\ total_failures = 0
    /\ plugin_stats = [p \in PluginNames |-> [success |-> 0, failure |-> 0]]
    /\ nCompleted = 0
    /\ nRaised = [p \in PluginNames |-> 0]
    /\ finished = <<>>
    /\ returned = <<>>
    /\ fft_size = ConfigFftSize
    /\ sample_rate = ConfigSampleRate
    /\ center_frequency = DefaultCenterFrequency
    /\ window = ConfigFftSize
    /\ frequencies = FrequencyArray(ConfigFftSize, ConfigSampleRate, DefaultCenterFrequency)
    /\ previous_spectrum = NoSpectrum
    /\ current_config = [sample_rate |-> ConfigSampleRate,
                         center_frequency |-> DefaultCenterFrequency,
                         gain |-> DefaultGain]
    /\ update = NoUpdate
    /\ enabled = [p \in PluginNames |-> p # "DemodulatorPlugin"]
    /\ counters = [p \in PluginNames |->
                     [call_count |-> 0, success_count |-> 0, failure_count |-> 0,
                      timed |-> 0]]
    /\ buffers = [p \in PluginNames |-> 0]
    /\ stage = [p \in PluginNames |-> "idle"]
    /\ job = [p \in PluginNames |-> NoJob]
    /\ chunk = 0
    /\ dcycle = 0
    /\ nUpdates = 0
    /\ nToggles = 0
    /\ changed = FALSE
    /\ spectrum_data = NoData
    /\ device = [center_freq |-> None, gain |-> None]
    /\ last_call = NoControlCall
    /\ nCalls = 0
    /\ captured = [c \in 1..MaxReads |-> None]
    /\ response = NoResponse
    /\ config_fft_size = ConfigFftSize
    /\ demod_config = [mode |-> "SPECTRUM",
                       bandwidth |-> DEMOD_MODES["SPECTRUM"].bandwidth_default]
    /\ plugin_data = [mode |-> "none", bandwidth |-> None]
    /\ mode = "FM"
    /\ bandwidth = 15000
    /\ audio_buffer = <<>>
    /\ audio = NoAudio
    /\ audio_result = NoResult
    /\ latest_audio = NoResult
    /\ appended = <<>>
    /\ emitted = <<>>
    /\ dropped = {}
    /\ delivered = <<>>
    /\ nPolls = 0
    /\ demod_call = NoDemodCall
    /\ spectrum_clients = <<>>
    /\ audio_clients = <<>>
    /\ active_connections = {}
    /\ client_stats = <<>>
    /\ message_counts = [spectrum |-> 0, audio |-> 0, waterfall |-> 0]
    /\ sockets = [w \in WebSockets |-> "new"]
    /\ received = [w \in WebSockets |-> {}]
    /\ broadcast = NoBroadcast
    /\ nConnects = 0
    /\ retry = NoRetry

(***************************************************************************)
(* The controller: start(), stop(), get_status()                           *)
(***************************************************************************)

\* get_status(): the two fields the status interface reports the state by.
get_status == [connected |-> is_connected, running |-> is_running]

\* The slot the new threading.Thread object of start() takes: a thread object
\* is fresh, so it is one that is not an alive thread of an earlier start().
NewThread == CHOOSE t \in Threads : ~Alive(t) /\ \A u \in Threads : ~Alive(u) => t <= u

\* start(), the path that opens and configures the device: raises
\* RuntimeError at once when is_running; else sets sdr, writes the sample
\* rate, centre frequency and gain of current_config to the device, sets
\* is_connected, is_running and starts a new thread on _acquisition_worker.
Start ==
    /\ ~stopping
    /\ ~is_running
    /\ \E t \in Threads : ~Alive(t)
    /\ sdr' = "RtlSdr"
    /\ is_connected' = TRUE
    /\ is_running' = TRUE
    /\ acquisition_thread' = NewThread
    /\ pc' = [pc EXCEPT ![NewThread] = "loop"]
    /\ samples' = [samples EXCEPT ![NewThread] = 0]
    /\ handle' = [handle EXCEPT ![NewThread] = "none"]
    /\ device' = [center_freq |-> current_config.center_frequency,
                  gain |-> current_config.gain]
    /\ UNCHANGED <<stopping, data_queue, chunksRead, consumerVars>>
    /\ UNCHANGED <<dspVars, last_call, nCalls, tagVars, config_fft_size, audioVars, demod_call, svcVars>>

\* Where start() raises inside its try: opening the device, one of the
\* three writes that configure it, or starting the thread.
StartFailures == {"RtlSdr", "sample_rate", "center_freq", "gain", "Thread.start"}

\* start() raises inside its try.  What was written to the device before
\* the failure stays written; a thread object that could not be started is
\* left in acquisition_thread; the `except Exception` sets is_connected and
\* is_running to False, closes the device, sets self.sdr = None and raises.
StartFail(point) ==
    /\ ~stopping
    /\ ~is_running
    /\ point = "Thread.start" => \E t \in Threads : ~Alive(t)
    /\ nCalls' = nCalls + 1
    /\ last_call' = [op |-> "start", args |-> <<point>>, error |-> "Exception"]
    /\ sdr' = "None"
    /\ is_connected' = FALSE
    /\ is_running' = FALSE
    /\ device' =
          CASE point \in {"RtlSdr", "sample_rate", "center_freq"} -> device
            [] point = "gain" ->
                 [device EXCEPT !.center_freq = current_config.center_frequency]
            [] point = "Thread.start" ->
                 [center_freq |-> current_config.center_frequency,
                  gain |-> current_config.gain]
    /\ acquisition_thread' =
          IF point = "Thread.start" THEN NewThread ELSE acquisition_thread
    /\ UNCHANGED <<stopping, pc, samples, handle, data_queue, chunksRead, consumerVars>>
    /\ UNCHANGED <<dspVars, tagVars, config_fft_size, audioVars, demod_call, svcVars>>

\* stop(), after the join: self.sdr.close(), self.sdr = None,
\* is_connected = False, and the plugin buffers are cleared:
\* demod_plugin.clear_buffer() empties audio_buffer.  A read_samples still
\* running on the device now runs on a closed handle.
StopRelease ==
    /\ sdr' = "None"
    /\ is_connected' = FALSE
    /\ handle' = [t \in Threads |->
                    IF sdr = "RtlSdr" /\ handle[t] = "open" THEN "closed" ELSE handle[t]]
    /\ audio_buffer' = <<>>
    /\ dropped' = dropped \cup SampleIds(audio_buffer)

\* What no step of stop() writes.
stopUnchanged == <<dspVars, tuneVars, tagVars, config_fft_size, demod_config,
                   plugin_data, mode, bandwidth, audio, audio_result,
                   latest_audio, appended, emitted, delivered, nPolls, demod_call, svcVars>>

\* stop() up to the join: is_running = False; with no alive acquisition
\* thread there is nothing to join and stop() runs to its end.
StopBegin ==
    /\ ~stopping
    /\ is_running' = FALSE
    /\ IF acquisition_thread # 0 /\ Alive(acquisition_thread)
          THEN /\ stopping' = TRUE
               /\ UNCHANGED <<sdr, is_connected, handle, audio_buffer, dropped>>
          ELSE /\ stopping' = FALSE
               /\ StopRelease
    /\ UNCHANGED <<acquisition_thread, pc, samples, data_queue, chunksRead, consumerVars>>
    /\ UNCHANGED stopUnchanged

\* join(timeout=2.0) returns because the thread has ended.
StopJoinReturn ==
    /\ stopping
    /\ ~Alive(acquisition_thread)
    /\ stopping' = FALSE
    /\ StopRelease
    /\ UNCHANGED <<is_running, acquisition_thread, pc, samples, data_queue,
                   chunksRead, consumerVars>>
    /\ UNCHANGED stopUnchanged

\* join(timeout=2.0) returns after 2 s with the thread still alive: the
\* thread is blocked in read_samples, the one blocking call of its loop.
StopJoinTimeout ==
    /\ stopping
    /\ pc[acquisition_thread] = "reading"
    /\ chunksRead + MaxOverlapReads >= MaxReads
    /\ stopping' = FALSE
    /\ StopRelease
    /\ UNCHANGED <<is_running, acquisition_thread, pc, samples, data_queue,
                   chunksRead, consumerVars>>
    /\ UNCHANGED stopUnchanged

\* stop() as one step of the event loop, which join() blocks: the thread is
\* at the test of its `while self.is_running`, leaves the loop within the
\* join, and stop() runs to its end.
Stop ==
    /\ ~stopping
    /\ is_running
    /\ update.pc = "idle"
    /\ pc[acquisition_thread] = "loop"
    /\ is_running' = FALSE
    /\ pc' = [pc EXCEPT ![acquisition_thread] = "exited"]
    /\ StopRelease
    /\ UNCHANGED <<stopping, acquisition_thread, samples, data_queue, chunksRead,
                   consumerVars>>
    /\ UNCHANGED stopUnchanged

(***************************************************************************)
(* _acquisition_worker, one step per access to shared state                *)
(***************************************************************************)

\* The `except Exception` of the loop: log only if is_running, then break.
\* `kind` names what was raised, for the threads that leave with a logged
\* error.
WorkerExcept(kind) == IF is_running THEN kind ELSE "exited"

\* while self.is_running:
WorkerLoopCheck(t) ==
    /\ pc[t] = "loop"
    /\ pc' = [pc EXCEPT ![t] = IF is_running THEN "call" ELSE "exited"]
    /\ UNCHANGED <<controllerVars, samples, handle, data_queue, chunksRead, consumerVars>>
    /\ UNCHANGED <<dspVars, ctlVars>>

\* self.sdr.read_samples(read_size) is entered: AttributeError when self.sdr
\* is None, else the thread blocks in the read on the open device.
WorkerReadCall(t) ==
    /\ pc[t] = "call"
    /\ IF sdr = "None"
          THEN /\ pc' = [pc EXCEPT ![t] = WorkerExcept("read_error")]
               /\ UNCHANGED handle
          ELSE /\ pc' = [pc EXCEPT ![t] = "reading"]
               /\ handle' = [handle EXCEPT ![t] = "open"]
    /\ UNCHANGED <<controllerVars, samples, data_queue, chunksRead, consumerVars>>
    /\ UNCHANGED <<dspVars, ctlVars>>

\* read_samples returns the next chunk of the device, captured at the
\* centre frequency the tuner is on.
WorkerReadReturn(t) ==
    /\ pc[t] = "reading"
    /\ chunksRead < MaxReads
    /\ chunksRead' = chunksRead + 1
    /\ samples' = [samples EXCEPT ![t] = chunksRead + 1]
    /\ handle' = [handle EXCEPT ![t] = "none"]
    /\ pc' = [pc EXCEPT ![t] = "put"]
    /\ captured' = [captured EXCEPT ![chunksRead + 1] = device.center_freq]
    /\ UNCHANGED <<controllerVars, data_queue, consumerVars>>
    /\ UNCHANGED <<dspVars, tuneVars, response, config_fft_size, audioVars, demod_call, svcVars>>

\* read_samples raises (device unplugged, USB error, handle closed under it).
WorkerReadRaise(t) ==
    /\ pc[t] = "reading"
    /\ handle' = [handle EXCEPT ![t] = "none"]
    /\ pc' = [pc EXCEPT ![t] = WorkerExcept("read_error")]
    /\ UNCHANGED <<controllerVars, samples, data_queue, chunksRead, consumerVars>>
    /\ UNCHANGED <<dspVars, ctlVars>>

\* Queue.put_nowait: appends, or raises Full when the queue holds maxsize.
QueueFull == Len(data_queue) >= QueueMaxSize

\* self.data_queue.put_nowait(samples); on Full the bare `except:` is entered.
WorkerPut(t) ==
    /\ pc[t] = "put"
    /\ IF QueueFull
          THEN /\ pc' = [pc EXCEPT ![t] = "full"]
               /\ UNCHANGED <<data_queue, samples>>
          ELSE /\ data_queue' = Append(data_queue, samples[t])
               /\ samples' = [samples EXCEPT ![t] = 0]
               /\ pc' = [pc EXCEPT ![t] = "loop"]
    /\ UNCHANGED <<controllerVars, handle, chunksRead, consumerVars>>
    /\ UNCHANGED <<dspVars, ctlVars>>

\* Mutant of WorkerGetOldest: on Full the chunk just read is dropped and the
\* queue is left as it is (drop-newest).
WorkerDropNewest(t) ==
    /\ pc[t] = "full"
    /\ pc' = [pc EXCEPT ![t] = "loop"]
    /\ samples' = [samples EXCEPT ![t] = 0]
    /\ UNCHANGED <<controllerVars, handle, chunksRead, data_queue, consumerVars>>
    /\ UNCHANGED <<dspVars, ctlVars>>

\* In the `except:` self.data_queue.get_nowait(): removes the oldest chunk,
\* or raises Empty, which `except Empty: pass` swallows: the chunk just read
\* is then never put.
WorkerGetOldest(t) ==
    /\ pc[t] = "full"
    /\ IF data_queue = <<>>
          THEN /\ pc' = [pc EXCEPT ![t] = "loop"]
               /\ samples' = [samples EXCEPT ![t] = 0]
               /\ UNCHANGED data_queue
          ELSE /\ data_queue' = Tail(data_queue)
               /\ pc' = [pc EXCEPT ![t] = "reput"]
               /\ UNCHANGED samples
    /\ UNCHANGED <<controllerVars, handle, chunksRead, consumerVars>>
    /\ UNCHANGED <<dspVars, ctlVars>>

\* The second self.data_queue.put_nowait(samples): a Full raised here is not
\* an Empty, so it reaches the loop's `except Exception` and ends the loop.
WorkerReput(t) ==
    /\ pc[t] = "reput"
    /\ IF QueueFull
          THEN /\ pc' = [pc EXCEPT ![t] = WorkerExcept("queue_error")]
               /\ UNCHANGED data_queue
          ELSE /\ data_queue' = Append(data_queue, samples[t])
               /\ pc' = [pc EXCEPT ![t] = "loop"]
    /\ samples' = [samples EXCEPT ![t] = 0]
    /\ UNCHANGED <<controllerVars, handle, chunksRead, consumerVars>>
    /\ UNCHANGED <<dspVars, ctlVars>>

(***************************************************************************)
(* spectrum_streaming_task -> get_spectrum_data -> run_with_supervision    *)
(***************************************************************************)

\* Mutant of StreamingTaskReady: the loop fires get_spectrum_data without
\* waiting for the previous call (asyncio.create_task instead of await).
StreamingTaskNoAwait == TRUE

\* spectrum_streaming_task: one task, created once at startup, whose loop
\* awaits get_spectrum_data() before it sleeps and polls again.
StreamingTaskReady == ~awaiting

\* Mutant of SafeExecute: no `except Exception`, so gather collects the
\* raised exception object instead of a PluginResult.
SafeExecuteUncaught(outcome) == IF outcome = "raised" THEN "exception" ELSE "success"

\* _safe_execute: the PluginResult a task returns for what plugin.process()
\* did: success=True with the data, or (except Exception) success=False
\* with the error.
SafeExecute(outcome) == IF outcome = "raised" THEN "failure" ELSE "success"

\* asyncio.gather(*tasks, return_exceptions=True) returns once every task
\* is done.
GatherDone == \A p \in PluginNames : results[p] # "pending"

\* Variant of Gather: the results in the order the tasks finished
\* (asyncio.as_completed) instead of the order of the task list.
GatherAsCompleted ==
    [i \in 1..Len(finished) |->
        [plugin_name |-> finished[i], success |-> results[finished[i]] = "success"]]

\* results = await asyncio.gather(*tasks, return_exceptions=True), with tasks
\* built from self.plugins in list order: one entry per task, in the order
\* of the task list, whatever order the tasks finished in.
Gather ==
    [i \in 1..Len(Plugins) |->
        [plugin_name |-> Plugins[i], success |-> results[Plugins[i]] = "success"]]

\* Variant of CountedStats: a cycle in which some stage failed counts no
\* success for the other stages.
CountedStatsAllOrNothing ==
    [p \in PluginNames |->
        [success |-> plugin_stats[p].success +
                        (IF \A q \in PluginNames : results[q] = "success" THEN 1 ELSE 0),
         failure |-> plugin_stats[p].failure + (IF results[p] = "failure" THEN 1 ELSE 0)]]

\* The counting loop of run_with_supervision over the gathered results: a
\* PluginResult counts for its plugin; anything else (an exception object)
\* only adds to total_failures.
CountedStats ==
    [p \in PluginNames |->
        [success |-> plugin_stats[p].success + (IF results[p] = "success" THEN 1 ELSE 0),
         failure |-> plugin_stats[p].failure + (IF results[p] = "failure" THEN 1 ELSE 0)]]

CountedFailures ==
    total_failures + Cardinality({p \in PluginNames : results[p] # "success"})

\* get_spectrum_data with an empty queue: get_nowait raises Empty, None is
\* returned and nothing changes.
GetSpectrumDataEmpty ==
    /\ ~stopping
    /\ StreamingTaskReady
    /\ is_running
    /\ data_queue = <<>>
    /\ UNCHANGED vars

\* get_spectrum_data takes the oldest chunk and enters run_with_supervision:
\* total_executions += 1, one _safe_execute task per plugin, then the await
\* of gather.
Dispatch ==
    /\ ~stopping
    /\ StreamingTaskReady
    /\ is_running
    /\ data_queue # <<>>
    /\ cycleChunk' = Head(data_queue)
    /\ data_queue' = Tail(data_queue)
    /\ total_executions' = total_executions + 1
    /\ inflight' = inflight + 1
    /\ awaiting' = TRUE
    /\ process' = [p \in PluginNames |-> "running"]
    /\ results' = [p \in PluginNames |-> "pending"]
    /\ finished' = <<>>
    /\ UNCHANGED <<controllerVars, workerVars, latest_results, total_failures,
                   plugin_stats, nCompleted, nRaised, returned>>
    /\ UNCHANGED <<dspVars, ctlVars>>

\* `await plugin.process(data)` returns in the task of plugin p.
StageReturn(p) ==
    /\ ~stopping
    /\ process[p] = "running"
    /\ process' = [process EXCEPT ![p] = "returned"]
    /\ results' = [results EXCEPT ![p] = SafeExecute("returned")]
    /\ finished' = Append(finished, p)
    /\ UNCHANGED <<controllerVars, workerVars, data_queue, inflight, awaiting,
                   cycleChunk, latest_results, total_executions,
                   total_failures, plugin_stats, nCompleted, nRaised, returned>>
    /\ UNCHANGED <<dspVars, ctlVars>>

\* Mutant of StageRaise: the exception is not contained by the task and the
\* gather, and propagates through run_with_supervision: get_spectrum_data
\* ends in its `except Exception` (return None) before it stores results.
StageRaiseEscapes(p) ==
    /\ ~stopping
    /\ process[p] = "running"
    /\ process' = [q \in PluginNames |-> IF q = p THEN "raised" ELSE "cancelled"]
    /\ results' = [q \in PluginNames |-> IF results[q] = "pending" THEN "none" ELSE results[q]]
    /\ inflight' = inflight - 1
    /\ awaiting' = FALSE
    /\ finished' = <<>>
    /\ nRaised' = [nRaised EXCEPT ![p] = @ + 1]
    /\ UNCHANGED <<controllerVars, workerVars, data_queue, cycleChunk,
                   latest_results, total_executions, total_failures,
                   plugin_stats, nCompleted, returned>>
    /\ UNCHANGED <<dspVars, ctlVars>>

\* `await plugin.process(data)` raises in the task of plugin p.
StageRaise(p) ==
    /\ ~stopping
    /\ process[p] = "running"
    /\ process' = [process EXCEPT ![p] = "raised"]
    /\ results' = [results EXCEPT ![p] = SafeExecute("raised")]
    /\ finished' = Append(finished, p)
    /\ nRaised' = [nRaised EXCEPT ![p] = @ + 1]
    /\ UNCHANGED <<controllerVars, workerVars, data_queue, inflight, awaiting,
                   cycleChunk, latest_results, total_executions,
                   total_failures, plugin_stats, nCompleted, returned>>
    /\ UNCHANGED <<dspVars, ctlVars>>

\* The response get_spectrum_data builds from the first successful result
\* of type 'spectrum': 'sample_rate' and 'center_frequency' are read from
\* self.current_config as it is when the response is built.
SpectrumResponse ==
    IF results["SpectrumPlugin"] = "success"
       THEN [chunk |-> cycleChunk,
             center_frequency |-> current_config.center_frequency,
             sample_rate |-> current_config.sample_rate]
       ELSE NoResponse

\* gather returns; run_with_supervision counts the results and returns the
\* list; get_spectrum_data stores it (self.latest_results = results),
\* builds its response and returns to the streaming task.
RunWithSupervisionReturn ==
    /\ ~stopping
    /\ awaiting
    /\ GatherDone
    /\ plugin_stats' = CountedStats
    /\ total_failures' = CountedFailures
    /\ latest_results' = results
    /\ nCompleted' = nCompleted + 1
    /\ inflight' = inflight - 1
    /\ awaiting' = FALSE
    /\ returned' = Gather
    /\ finished' = <<>>
    /\ response' = SpectrumResponse
    /\ UNCHANGED <<controllerVars, workerVars, data_queue, cycleChunk, process,
                   results, total_executions, nRaised>>
    /\ UNCHANGED <<dspVars, tuneVars, captured, config_fft_size, audioVars, demod_call, svcVars>>

(***************************************************************************)
(* SpectrumProcessor and the plugins' process(): the event loop runs       *)
(* tune(), update_config and the coroutine parts of process(); the         *)
(* executor threads (run_in_executor(None, ...)) run process_samples and   *)
(* _demodulate, one step per access to the processor's fields.             *)
(***************************************************************************)

\* The event loop is between callbacks: it is not inside update_config.
EventLoopFree == update.pc = "idle"

\* No dispatch cycle is in progress.
CycleIdle == \A p \in PluginNames : stage[p] = "idle"

\* Executor calls that are inside process_samples.
InProcessSamples ==
    {p \in ProcessorStages : job[p].pc \in {"window", "smooth", "store", "return"}}

\* update_config(sample_rate=sr, fft_size=n) is entered (the centre
\* frequency is set through tune()).  An argument equal to the field it
\* would set does what None does, so the calls taken are those whose
\* arguments are None or a new value.  The calls come after start(), whose
\* own update_config call then passes the values the processor already has.
UpdateConfigCall(sr, n) ==
    /\ is_running
    /\ EventLoopFree
    /\ \A p \in PluginNames : stage[p] # "created"
    /\ sr # sample_rate /\ n # fft_size
    /\ nUpdates < MaxUpdates
    /\ nUpdates' = nUpdates + 1
    /\ update' = [pc |-> "sample_rate", sample_rate |-> sr, center_frequency |-> None,
                  fft_size |-> n, updated |-> FALSE]
    /\ UNCHANGED <<fft_size, sample_rate, center_frequency, window, frequencies,
                   previous_spectrum, current_config, enabled, counters, buffers,
                   stage, job, chunk, dcycle, nToggles, changed, spectrum_data,
                   coreVars, ctlVars>>

\* not (24e6 <= frequency <= 1766e6)
OutOfRange(f) == ~(MinFrequency <= f /\ f <= MaxFrequency)

\* A tune() call is made between callbacks of the event loop; what it does
\* not write stays as it is.
TuneFrame ==
    /\ EventLoopFree
    /\ \A p \in PluginNames : stage[p] # "created"
    /\ nCalls' = nCalls + 1
    /\ UNCHANGED <<fft_size, sample_rate, center_frequency, window, frequencies,
                   previous_spectrum, enabled, counters, buffers, stage, job,
                   chunk, dcycle, nToggles, changed, spectrum_data, coreVars,
                   tagVars, config_fft_size, audioVars, demod_call, svcVars>>

\* tune() raises before it has written anything.
TuneRaise(f, g, error) ==
    /\ last_call' = [op |-> "tune", args |-> <<f, g>>, error |-> error]
    /\ UNCHANGED <<device, current_config, update, nUpdates>>

\* sdr.center_freq and current_config['center_frequency'] are written, then
\* a later statement raises: the `except Exception` logs and re-raises, and
\* restores nothing.
TuneRaiseLate(f, g, error) ==
    /\ device' = [device EXCEPT !.center_freq = f]
    /\ current_config' = [current_config EXCEPT !.center_frequency = f]
    /\ last_call' = [op |-> "tune", args |-> <<f, g>>, error |-> error]
    /\ UNCHANGED <<update, nUpdates>>

\* tune() runs to its end: the frequency and, when it is not None, the gain
\* are written to the device and to current_config, and
\* spectrum_processor.update_config(center_frequency=frequency) is entered.
TuneApply(f, g) ==
    /\ device' = [center_freq |-> f, gain |-> IF g = None THEN device.gain ELSE g]
    /\ current_config' = [current_config EXCEPT !.center_frequency = f,
                                                !.gain = IF g = None THEN @ ELSE g]
    /\ last_call' = [op |-> "tune", args |-> <<f, g>>, error |-> "none"]
    /\ nUpdates' = nUpdates + 1
    /\ update' = [pc |-> "sample_rate", sample_rate |-> None,
                  center_frequency |-> f, fft_size |-> None, updated |-> FALSE]

\* Variant of TuneCall: the range is checked after the frequency has been
\* written.
TuneCallValidatesLate(f, g, dev) ==
    /\ TuneFrame
    /\ IF ~is_connected              THEN TuneRaise(f, g, "RuntimeError")
       ELSE IF dev = "center_freq"   THEN TuneRaise(f, g, "DeviceError")
       ELSE IF OutOfRange(f)         THEN TuneRaiseLate(f, g, "ValueError")
       ELSE IF g # None /\ dev = "gain" THEN TuneRaiseLate(f, g, "DeviceError")
       ELSE TuneApply(f, g)

\* tune(frequency, gain), every path.  `dev` is what the device does with
\* the writes of the call: "ok", or the write it rejects ("center_freq",
\* "gain"), whose property setter then raises.  Raises RuntimeError unless
\* is_connected, ValueError for a frequency outside the range; else writes
\* sdr.center_freq and current_config['center_frequency'], then, for a gain
\* that is not None, sdr.gain and current_config['gain'], then enters
\* update_config.
TuneCall(f, g, dev) ==
    /\ TuneFrame
    /\ IF ~is_connected              THEN TuneRaise(f, g, "RuntimeError")
       ELSE IF OutOfRange(f)         THEN TuneRaise(f, g, "ValueError")
       ELSE IF dev = "center_freq"   THEN TuneRaise(f, g, "DeviceError")
       ELSE IF g # None /\ dev = "gain" THEN TuneRaiseLate(f, g, "DeviceError")
       ELSE TuneApply(f, g)

\* tune(frequency) on the connected controller, with no gain and a device
\* that takes the write.
Tune(f) ==
    /\ is_connected
    /\ nUpdates < MaxUpdates
    /\ TuneCall(f, None, "ok")

\* mode_config['bandwidth_min'] <= bandwidth <= mode_config['bandwidth_max']
BandwidthInRange(m, bw) ==
    DEMOD_MODES[m].bandwidth_min <= bw /\ bw <= DEMOD_MODES[m].bandwidth_max

\* A set_demodulation() call is made between callbacks of the event loop;
\* what it does not write stays as it is.
SetDemodulationFrame ==
    /\ EventLoopFree
    /\ \A p \in PluginNames : stage[p] # "created"
    /\ nCalls' = nCalls + 1
    /\ UNCHANGED <<fft_size, sample_rate, center_frequency, window, frequencies,
                   previous_spectrum, current_config, update, counters, buffers,
                   stage, job, chunk, dcycle, nUpdates, nToggles, changed,
                   spectrum_data, coreVars, device, tagVars, config_fft_size,
                   plugin_data, audio_buffer, audio, audio_result, latest_audio,
                   appended, emitted, dropped, delivered, nPolls, demod_call, svcVars>>

\* set_demodulation raises ValueError before it has written anything.
SetDemodulationRaise(m, bw) ==
    /\ last_call' = [op |-> "set_demodulation", args |-> <<m, bw>>,
                     error |-> "ValueError"]
    /\ UNCHANGED <<demod_config, enabled, mode, bandwidth>>

\* set_demodulation with valid arguments: demod_config is written; for
\* 'SPECTRUM' the demodulator plugin is disabled, else it is enabled and
\* demod_plugin.set_mode(mode, bandwidth) writes its mode and bandwidth.
SetDemodulationApply(m, bw) ==
    /\ demod_config' = [mode |-> m, bandwidth |-> bw]
    /\ enabled' = [enabled EXCEPT !["DemodulatorPlugin"] = (m # "SPECTRUM")]
    /\ mode' = IF m = "SPECTRUM" THEN mode ELSE m
    /\ bandwidth' = IF m = "SPECTRUM" THEN bandwidth ELSE bw
    /\ last_call' = [op |-> "set_demodulation", args |-> <<m, bw>>,
                     error |-> "none"]

\* Variant of SetDemodulation: demod_config['mode'] is written before the
\* bandwidth is checked.
SetDemodulationValidatesLate(m, bw) ==
    /\ SetDemodulationFrame
    /\ IF m \notin DOMAIN DEMOD_MODES
          THEN SetDemodulationRaise(m, bw)
       ELSE IF bw # None /\ ~BandwidthInRange(m, bw)
          THEN /\ demod_config' = [demod_config EXCEPT !.mode = m]
               /\ last_call' = [op |-> "set_demodulation", args |-> <<m, bw>>,
                                error |-> "ValueError"]
               /\ UNCHANGED <<enabled, mode, bandwidth>>
       ELSE SetDemodulationApply(m, IF bw = None
                                       THEN DEMOD_MODES[m].bandwidth_default
                                       ELSE bw)

\* set_demodulation(mode, bandwidth), every path: ValueError for a mode that
\* is not in DEMOD_MODES; a bandwidth of None becomes the mode's default, any
\* other is checked against the mode's range (ValueError); then the writes.
SetDemodulation(m, bw) ==
    /\ SetDemodulationFrame
    /\ IF m \notin DOMAIN DEMOD_MODES
          THEN SetDemodulationRaise(m, bw)
       ELSE IF bw # None /\ ~BandwidthInRange(m, bw)
          THEN SetDemodulationRaise(m, bw)
       ELSE SetDemodulationApply(m, IF bw = None
                                       THEN DEMOD_MODES[m].bandwidth_default
                                       ELSE bw)

\* a & b on non-negative integers.
RECURSIVE BitAnd(_, _)
BitAnd(a, b) ==
    IF a = 0 \/ b = 0
       THEN 0
       ELSE (a % 2) * (b % 2) + 2 * BitAnd(a \div 2, b \div 2)

\* ConfigValidator.validate_fft_size: value > 0 and (value & (value - 1)) == 0
validate_fft_size(value) == value > 0 /\ BitAnd(value, value - 1) = 0

\* A configuration path is used between callbacks of the event loop and
\* leaves the controller, the processor and the plugins as they are.
ConfigFrame ==
    /\ EventLoopFree
    /\ UNCHANGED <<dspVars, coreVars, tuneVars, tagVars, audioVars, demod_call, svcVars>>

\* ConfigManager.set('fft_size', value): returns False, with config as it
\* is, when the validator rejects the value; else setattr(config, key, value).
ConfigManagerSet(value) ==
    /\ ConfigFrame
    /\ config_fft_size' = IF validate_fft_size(value) THEN value ELSE config_fft_size

\* POST /api/sdr/config with 'fft_size' in the body:
\* config.fft_size = new_config["fft_size"], unchecked.
update_sdr_config(value) ==
    /\ ConfigFrame
    /\ config_fft_size' = value

\* if sample_rate is not None and sample_rate != self.sample_rate
UpdateSampleRate ==
    /\ update.pc = "sample_rate"
    /\ IF update.sample_rate # None /\ update.sample_rate # sample_rate
          THEN /\ sample_rate' = update.sample_rate
               /\ changed' = TRUE
               /\ update' = [update EXCEPT !.pc = "center_frequency", !.updated = TRUE]
          ELSE /\ update' = [update EXCEPT !.pc = "center_frequency"]
               /\ UNCHANGED <<sample_rate, changed>>
    /\ UNCHANGED <<fft_size, center_frequency, window, frequencies,
                   previous_spectrum, current_config, enabled, counters, buffers,
                   stage, job, chunk, dcycle, nUpdates, nToggles, spectrum_data, coreVars, ctlVars>>

\* if center_frequency is not None and center_frequency != self.center_frequency
UpdateCenterFrequency ==
    /\ update.pc = "center_frequency"
    /\ IF update.center_frequency # None /\ update.center_frequency # center_frequency
          THEN /\ center_frequency' = update.center_frequency
               /\ update' = [update EXCEPT !.pc = "fft_size", !.updated = TRUE]
          ELSE /\ update' = [update EXCEPT !.pc = "fft_size"]
               /\ UNCHANGED center_frequency
    /\ UNCHANGED <<fft_size, sample_rate, window, frequencies, previous_spectrum,
                   current_config, enabled, counters, buffers, stage, job, chunk,
                   dcycle, nUpdates, nToggles, changed, spectrum_data, coreVars, ctlVars>>

\* if fft_size is not None and fft_size != self.fft_size: self.fft_size = fft_size
UpdateFftSize ==
    /\ update.pc = "fft_size"
    /\ IF update.fft_size # None /\ update.fft_size # fft_size
          THEN /\ fft_size' = update.fft_size
               /\ changed' = TRUE
               /\ update' = [update EXCEPT !.pc = "window"]
          ELSE /\ update' = [update EXCEPT !.pc = "frequencies"]
               /\ UNCHANGED <<fft_size, changed>>
    /\ UNCHANGED <<sample_rate, center_frequency, window, frequencies,
                   previous_spectrum, current_config, enabled, counters, buffers,
                   stage, job, chunk, dcycle, nUpdates, nToggles, spectrum_data, coreVars, ctlVars>>

\* self.window = self._create_window(); ...; updated = True.
\* previous_spectrum is not among the fields the branch resets.
UpdateWindow ==
    /\ update.pc = "window"
    /\ window' = fft_size
    /\ update' = [update EXCEPT !.pc = "frequencies", !.updated = TRUE]
    /\ UNCHANGED <<fft_size, sample_rate, center_frequency, frequencies,
                   previous_spectrum, current_config, enabled, counters, buffers,
                   stage, job, chunk, dcycle, nUpdates, nToggles, changed, spectrum_data,
                   coreVars, ctlVars>>

\* if updated: self._update_frequency_array(); update_config returns.
UpdateFrequencyArray ==
    /\ update.pc = "frequencies"
    /\ frequencies' = IF update.updated
                         THEN FrequencyArray(fft_size, sample_rate, center_frequency)
                         ELSE frequencies
    /\ update' = NoUpdate
    /\ UNCHANGED <<fft_size, sample_rate, center_frequency, window,
                   previous_spectrum, current_config, enabled, counters, buffers,
                   stage, job, chunk, dcycle, nUpdates, nToggles, changed, spectrum_data,
                   coreVars, ctlVars>>

\* plugin.enable() / plugin.disable() (the plugin endpoints of main_v2.py),
\* and demod_plugin.enabled = ... in set_demodulation.  The flag is read
\* only when process() begins, so a change during a cycle is the same as
\* one after it, and is taken between cycles.
SetEnabled(p, b) ==
    /\ EventLoopFree
    /\ CycleIdle
    /\ enabled[p] # b
    /\ nToggles < MaxToggles
    /\ nToggles' = nToggles + 1
    /\ enabled' = [enabled EXCEPT ![p] = b]
    /\ UNCHANGED <<fft_size, sample_rate, center_frequency, window, frequencies,
                   previous_spectrum, current_config, update, counters, buffers,
                   stage, job, chunk, dcycle, nUpdates, changed, spectrum_data,
                   coreVars, ctlVars>>

\* get_spectrum_data has a chunk of n samples, puts it into plugin_data
\* beside a copy of demod_config, and run_with_supervision creates one task
\* per plugin.
DspDispatch(n) ==
    /\ is_running
    /\ EventLoopFree
    /\ CycleIdle
    /\ dcycle < MaxDspCycles
    /\ dcycle' = dcycle + 1
    /\ chunk' = n
    /\ stage' = [p \in PluginNames |-> "created"]
    /\ spectrum_data' = NoData
    /\ plugin_data' = demod_config
    /\ UNCHANGED <<job, fft_size, sample_rate, center_frequency, window, frequencies,
                   previous_spectrum, current_config, update, enabled, counters,
                   buffers, nUpdates, nToggles, changed, coreVars, tuneVars,
                   tagVars, config_fft_size, demod_config, mode, bandwidth,
                   audio_buffer, audio, audio_result, latest_audio, appended,
                   emitted, dropped, delivered, nPolls, demod_call, svcVars>>

\* The tasks of a gather begin in list order.
EarlierBegun(p) ==
    \A i, j \in 1..Len(Plugins) : (Plugins[j] = p /\ i < j) => stage[Plugins[i]] # "created"

\* DemodulatorPlugin.process up to its await: the 'disabled' result, or
\* self.mode and self.bandwidth taken from the demod_config of plugin_data.
StageBeginDemod(p) ==
    IF p # "DemodulatorPlugin"
       THEN UNCHANGED <<mode, bandwidth, audio_result>>
    ELSE IF ~enabled[p]
       THEN /\ audio_result' = [status |-> "disabled", mode |-> "none",
                                audio_samples |-> <<>>]
            /\ UNCHANGED <<mode, bandwidth>>
    ELSE /\ mode' = plugin_data.mode
         /\ bandwidth' = plugin_data.bandwidth
         /\ UNCHANGED audio_result

\* Variant of StageBegin: the call is counted before the enabled flag is
\* looked at.
StageBeginCountsFirst(p) ==
    /\ stage[p] = "created"
    /\ EarlierBegun(p)
    /\ counters' = [counters EXCEPT ![p].call_count = @ + 1]
    /\ IF ~enabled[p]
          THEN /\ stage' = [stage EXCEPT ![p] = "disabled"]
               /\ UNCHANGED job
          ELSE /\ stage' = [stage EXCEPT ![p] = "running"]
               /\ job' = [job EXCEPT ![p].pc = "queued"]
    /\ StageBeginDemod(p)
    /\ UNCHANGED <<fft_size, sample_rate, center_frequency, window, frequencies,
                   previous_spectrum, current_config, update, enabled, buffers,
                   chunk, dcycle, nUpdates, nToggles, changed, spectrum_data,
                   coreVars, tuneVars, tagVars, config_fft_size, demod_config,
                   plugin_data, audio_buffer, audio, latest_audio, appended,
                   emitted, dropped, delivered, nPolls, demod_call, svcVars>>

\* process() up to its first await: `if not self.enabled: return {...
\* 'status': 'disabled'}`; else call_count += 1 and the blocking call is
\* handed to the executor.
StageBegin(p) ==
    /\ stage[p] = "created"
    /\ EarlierBegun(p)
    /\ IF ~enabled[p]
          THEN /\ stage' = [stage EXCEPT ![p] = "disabled"]
               /\ UNCHANGED <<counters, job>>
          ELSE /\ stage' = [stage EXCEPT ![p] = "running"]
               /\ counters' = [counters EXCEPT ![p].call_count = @ + 1]
               /\ job' = [job EXCEPT ![p].pc = "queued"]
    /\ StageBeginDemod(p)
    /\ UNCHANGED <<fft_size, sample_rate, center_frequency, window, frequencies,
                   previous_spectrum, current_config, update, enabled, buffers,
                   chunk, dcycle, nUpdates, nToggles, changed, spectrum_data,
                   coreVars, tuneVars, tagVars, config_fft_size, demod_config,
                   plugin_data, audio_buffer, audio, latest_audio, appended,
                   emitted, dropped, delivered, nPolls, demod_call, svcVars>>

\* What process_samples' `except Exception` returns: two empty arrays.
ProcessFailed(j) ==
    [j EXCEPT !.pc = "done", !.error = TRUE,
              !.spectrum = [len |-> 0, smoothed |-> FALSE],
              !.frequencies = EmptyArray]

\* process_samples is entered on an executor thread: the chunk is padded to
\* self.fft_size, taken as it is, or cut into frames of self.fft_size
\* (_process_long_sequence); each way the data that goes on is fft_size long.
ProcessBegin(p) ==
    /\ p \in ProcessorStages
    /\ job[p].pc = "queued"
    /\ job' = [job EXCEPT ![p].pc = "window", ![p].n = fft_size]
    /\ UNCHANGED <<fft_size, sample_rate, center_frequency, window, frequencies,
                   previous_spectrum, current_config, update, enabled, counters,
                   buffers, stage, chunk, dcycle, nUpdates, nToggles, changed,
                   spectrum_data, coreVars, ctlVars>>

\* windowed = samples * self.window: a ValueError when the lengths differ.
ProcessWindow(p) ==
    /\ job[p].pc = "window"
    /\ job' = [job EXCEPT ![p] = IF window = job[p].n
                                    THEN [@ EXCEPT !.pc = "smooth"]
                                    ELSE ProcessFailed(@)]
    /\ UNCHANGED <<fft_size, sample_rate, center_frequency, window, frequencies,
                   previous_spectrum, current_config, update, enabled, counters,
                   buffers, stage, chunk, dcycle, nUpdates, nToggles, changed,
                   spectrum_data, coreVars, ctlVars>>

\* if self.enable_smoothing and self.previous_spectrum is not None:
\* spectrum_db = a * spectrum_db + (1 - a) * self.previous_spectrum, a
\* ValueError when the lengths differ.
ProcessSmooth(p) ==
    /\ job[p].pc = "smooth"
    /\ job' = [job EXCEPT ![p] =
                 IF previous_spectrum = NoSpectrum
                    THEN [@ EXCEPT !.pc = "store",
                                   !.spectrum = [len |-> job[p].n, smoothed |-> FALSE]]
                 ELSE IF previous_spectrum.len = job[p].n
                    THEN [@ EXCEPT !.pc = "store",
                                   !.spectrum = [len |-> job[p].n, smoothed |-> TRUE]]
                 ELSE ProcessFailed(@)]
    /\ changed' = FALSE
    /\ UNCHANGED <<fft_size, sample_rate, center_frequency, window, frequencies,
                   previous_spectrum, current_config, update, enabled, counters,
                   buffers, stage, chunk, dcycle, nUpdates, nToggles, spectrum_data,
                   coreVars, ctlVars>>

\* self.previous_spectrum = spectrum_db.copy()
ProcessStore(p) ==
    /\ job[p].pc = "store"
    /\ previous_spectrum' = [len |-> job[p].spectrum.len, cycle |-> dcycle, stage |-> p]
    /\ job' = [job EXCEPT ![p].pc = "return"]
    /\ UNCHANGED <<fft_size, sample_rate, center_frequency, window, frequencies,
                   current_config, update, enabled, counters, buffers, stage,
                   chunk, dcycle, nUpdates, nToggles, changed, spectrum_data, coreVars, ctlVars>>

\* return self.frequencies.copy(), spectrum_db
ProcessReturn(p) ==
    /\ job[p].pc = "return"
    /\ job' = [job EXCEPT ![p].pc = "done", ![p].frequencies = frequencies]
    /\ UNCHANGED <<fft_size, sample_rate, center_frequency, window, frequencies,
                   previous_spectrum, current_config, update, enabled, counters,
                   buffers, stage, chunk, dcycle, nUpdates, nToggles, changed,
                   spectrum_data, coreVars, ctlVars>>

\* _demodulate on an executor thread: None for a self.mode it has no
\* branch for; else the audio demodulated in that mode and filtered to
\* self.bandwidth, as they are when the thread reads them, or None (logged)
\* when the demodulation, resampling or filter raises.
Demodulate(outcome) ==
    /\ job["DemodulatorPlugin"].pc = "queued"
    /\ mode \notin DemodulatedModes => outcome = "empty"
    /\ job' = [job EXCEPT !["DemodulatorPlugin"] =
                 [@ EXCEPT !.pc = "done", !.audio = (outcome = "audio"),
                           !.error = (outcome = "error")]]
    /\ IF outcome = "audio"
          THEN \E len \in AudioLens :
                  audio' = [mode |-> mode, bandwidth |-> bandwidth, len |-> len]
          ELSE audio' = NoAudio
    /\ UNCHANGED <<fft_size, sample_rate, center_frequency, window, frequencies,
                   previous_spectrum, current_config, update, enabled, counters,
                   buffers, stage, chunk, dcycle, nUpdates, nToggles, changed,
                   spectrum_data, coreVars, tuneVars, tagVars, config_fft_size,
                   demod_config, plugin_data, mode, bandwidth, audio_buffer,
                   audio_result, latest_audio, appended, emitted, dropped,
                   delivered, nPolls, demod_call, svcVars>>

\* The samples _demodulate returned, as extended onto the buffer: each
\* sample with its place in the stream of all samples and the mode it was
\* demodulated in.
NewSamples ==
    [i \in 1..audio.len |-> [id |-> Len(appended) + i, mode |-> audio.mode]]

\* Variant of StageEndDemod: the chunk is cut from the samples of this
\* cycle and what was buffered before is dropped.
StageEndDemodFresh ==
    LET buffer == audio_buffer \o NewSamples
        ready  == Len(NewSamples) >= target_chunk_size
    IN  /\ appended' = appended \o NewSamples
        /\ audio_buffer' =
              IF ready THEN SubSeq(NewSamples, target_chunk_size + 1, Len(NewSamples))
                       ELSE buffer
        /\ emitted' =
              IF ready THEN emitted \o SubSeq(NewSamples, 1, target_chunk_size)
                       ELSE emitted
        /\ audio_result' =
              [status |-> "success", mode |-> mode,
               audio_samples |-> IF ready THEN SubSeq(NewSamples, 1, target_chunk_size)
                                          ELSE <<>>]

\* DemodulatorPlugin.process after its await, with audio:
\* self.audio_buffer.extend(audio_samples); once the buffer holds
\* target_chunk_size samples its first target_chunk_size are cut off as the
\* chunk of the result, which carries 'mode': self.mode as it is now.
StageEndDemod ==
    LET buffer == audio_buffer \o NewSamples
        ready  == Len(buffer) >= target_chunk_size
    IN  /\ appended' = appended \o NewSamples
        /\ audio_buffer' =
              IF ready THEN SubSeq(buffer, target_chunk_size + 1, Len(buffer))
                       ELSE buffer
        /\ emitted' =
              IF ready THEN emitted \o SubSeq(buffer, 1, target_chunk_size)
                       ELSE emitted
        /\ audio_result' =
              [status |-> "success", mode |-> mode,
               audio_samples |-> IF ready THEN SubSeq(buffer, 1, target_chunk_size)
                                          ELSE <<>>]

\* process() after its await.  SpectrumPlugin and WaterfallPlugin take
\* whatever arrays came back (empty ones too), count a success and return
\* 'status': 'success'; DemodulatorPlugin returns 'status': 'no_output' for
\* None, else buffers the audio and counts a success.
StageEnd(p) ==
    /\ EventLoopFree
    /\ stage[p] = "running"
    /\ job[p].pc = "done"
    /\ IF p = "DemodulatorPlugin" /\ ~job[p].audio
          THEN /\ stage' = [stage EXCEPT ![p] = "no_output"]
               /\ audio_result' = [status |-> "no_output", mode |-> mode,
                                   audio_samples |-> <<>>]
               /\ UNCHANGED <<counters, buffers, audio_buffer, appended, emitted>>
          ELSE /\ stage' = [stage EXCEPT ![p] = "success"]
               /\ counters' = [counters EXCEPT ![p].success_count = @ + 1,
                                               ![p].timed = @ + 1]
               /\ buffers' = [buffers EXCEPT ![p] =
                                 IF p = "SpectrumPlugin" THEN @ ELSE @ + 1]
               /\ IF p = "DemodulatorPlugin"
                     THEN StageEndDemod
                     ELSE UNCHANGED <<audio_buffer, appended, emitted, audio_result>>
    /\ UNCHANGED <<fft_size, sample_rate, center_frequency, window, frequencies,
                   previous_spectrum, current_config, update, enabled, job,
                   chunk, dcycle, nUpdates, nToggles, changed, spectrum_data,
                   coreVars, tuneVars, tagVars, config_fft_size, demod_config,
                   plugin_data, mode, bandwidth, audio, latest_audio, dropped,
                   delivered, nPolls, demod_call, svcVars>>

\* What the supervisor's task reports for a stage: every way process() ends
\* here is a return, never a raise.
StageSupervised(p) == SafeExecute("returned")

\* gather is done; get_spectrum_data stores the results
\* (self.latest_results = results) and builds its response from the first
\* successful result of type 'spectrum': the arrays the Spectrum stage
\* returned, with current_config['center_frequency'] as it is now.  The
\* 'disabled' result has no 'frequencies' key: KeyError, and the outer
\* `except Exception` returns None.
BuildSpectrumData ==
    /\ EventLoopFree
    /\ \A p \in PluginNames : stage[p] \in {"disabled", "success", "no_output"}
    /\ spectrum_data' =
          IF stage["SpectrumPlugin"] = "success"
             THEN [frequencies |-> job["SpectrumPlugin"].frequencies,
                   spectrum |-> job["SpectrumPlugin"].spectrum.len,
                   center_frequency |-> current_config.center_frequency]
             ELSE NoData
    /\ stage' = [p \in PluginNames |-> "idle"]
    /\ job' = [p \in PluginNames |-> NoJob]
    /\ chunk' = 0
    /\ latest_audio' = audio_result
    /\ audio_result' = NoResult
    /\ audio' = NoAudio
    /\ UNCHANGED <<fft_size, sample_rate, center_frequency, window, frequencies,
                   previous_spectrum, current_config, update, enabled, counters,
                   buffers, dcycle, nUpdates, nToggles, changed, coreVars,
                   tuneVars, tagVars, config_fft_size, demod_config, plugin_data,
                   mode, bandwidth, audio_buffer, appended, emitted, dropped,
                   delivered, nPolls, demod_call, svcVars>>

\* get_audio_data, as the streaming task calls it (is_running, after its
\* get_spectrum_data): None when the demodulator plugin is disabled, else
\* the audio chunk of the audio result in latest_results, if it has one.
\* A chunk is known by its first sample.
get_audio_data ==
    /\ is_running
    /\ EventLoopFree
    /\ CycleIdle
    /\ nPolls < MaxPolls
    /\ nPolls' = nPolls + 1
    /\ delivered' =
          IF enabled["DemodulatorPlugin"] /\ latest_audio.audio_samples # <<>>
             THEN Append(delivered, latest_audio.audio_samples[1].id)
             ELSE delivered
    /\ UNCHANGED <<dspVars, coreVars, tuneVars, tagVars, config_fft_size,
                   demod_config, plugin_data, mode, bandwidth, audio_buffer,
                   audio, audio_result, latest_audio, appended, emitted, dropped,
                   demod_call, svcVars>>

(***************************************************************************)
(* Specifications                                                          *)
(***************************************************************************)

Worker(t) ==
    \/ WorkerLoopCheck(t)
    \/ WorkerReadCall(t)
    \/ WorkerReadReturn(t)
    \/ WorkerReadRaise(t)
    \/ WorkerPut(t)
    \/ WorkerGetOldest(t)
    \/ WorkerReput(t)

Next ==
    \/ Start
    \/ StopBegin
    \/ StopJoinReturn
    \/ StopJoinTimeout
    \/ \E t \in Threads : Worker(t)
    \/ GetSpectrumDataEmpty
    \/ Dispatch
    \/ \E p \in PluginNames : StageReturn(p) \/ StageRaise(p)
    \/ RunWithSupervisionReturn

Spec == Init /\ [][Next]_vars

\* The acquisition side: every action but a raising stage, so the stage
\* outcomes, which no worker or controller step reads, stay out of the
\* state.
AcqNext ==
    \/ Start
    \/ StopBegin
    \/ StopJoinReturn
    \/ StopJoinTimeout
    \/ \E t \in Threads : Worker(t)
    \/ GetSpectrumDataEmpty
    \/ Dispatch
    \/ \E p \in PluginNames : StageReturn(p)
    \/ RunWithSupervisionReturn

AcqSpec == Init /\ [][AcqNext]_vars

\* The supervisor side: stages may raise in any pattern.  The device yields
\* MaxCycles chunks, so the queue never fills (no WorkerGetOldest, no
\* WorkerReput), and every join ends within its timeout.
SupWorker(t) ==
    \/ WorkerLoopCheck(t)
    \/ WorkerReadCall(t)
    \/ chunksRead < MaxCycles /\ WorkerReadReturn(t)
    \/ WorkerReadRaise(t)
    \/ WorkerPut(t)

SupNext ==
    \/ Start
    \/ StopBegin
    \/ StopJoinReturn
    \/ \E t \in Threads : SupWorker(t)
    \/ GetSpectrumDataEmpty
    \/ Dispatch
    \/ \E p \in PluginNames : StageReturn(p) \/ StageRaise(p)
    \/ RunWithSupervisionReturn

SupSpec == Init /\ [][SupNext]_vars

\* Scheduling: the event loop runs its ready callbacks in FIFO order, so a
\* task that is ready again and again (between the joins of stop() calls
\* that block the loop) is run; a started thread keeps being scheduled, and
\* a join on an ended thread returns.
SupFairness ==
    /\ \A p \in PluginNames : SF_vars(StageReturn(p) \/ StageRaise(p))
    /\ SF_vars(RunWithSupervisionReturn)
    /\ WF_vars(StopJoinReturn)
    /\ \A t \in Threads : WF_vars(SupWorker(t))

SupFairSpec == SupSpec /\ SupFairness

\* start() calls that succeed or fail, stop() with its join, and the
\* acquisition threads.
StartNext ==
    \/ Start
    \/ \E point \in StartFailures : nCalls < MaxCalls /\ StartFail(point)
    \/ StopBegin
    \/ StopJoinReturn
    \/ StopJoinTimeout
    \/ \E t \in Threads : Worker(t)

StartSpec == Init /\ [][StartNext]_vars

\* The processor and the plugins under the running controller: start()
\* comes first (its own update_config call passes the values the processor
\* was built with and changes nothing).
DspNext ==
    \/ Start
    \/ \E f \in Frequencies : Tune(f)
    \/ \E sr \in SampleRates \cup {None}, n \in FftSizes \cup {None} :
          UpdateConfigCall(sr, n)
    \/ UpdateSampleRate
    \/ UpdateCenterFrequency
    \/ UpdateFftSize
    \/ UpdateWindow
    \/ UpdateFrequencyArray
    \/ \E p \in PluginNames, b \in BOOLEAN : SetEnabled(p, b)
    \/ \E n \in ChunkLens : DspDispatch(n)
    \/ \E p \in PluginNames : StageBegin(p)
    \/ \E p \in ProcessorStages : ProcessBegin(p)
    \/ \E p \in ProcessorStages : ProcessWindow(p)
    \/ \E p \in ProcessorStages : ProcessSmooth(p)
    \/ \E p \in ProcessorStages : ProcessStore(p)
    \/ \E p \in ProcessorStages : ProcessReturn(p)
    \/ \E outcome \in {"audio", "error", "empty"} : Demodulate(outcome)
    \/ \E p \in PluginNames : StageEnd(p)
    \/ BuildSpectrumData

DspSpec == Init /\ [][DspNext]_vars

\* Nothing else is using the processor: no update_config is in progress and
\* no executor call is inside process_samples.
ProcessorIdle == update.pc = "idle" /\ InProcessSamples = {}

\* The processor used by one caller at a time: a call to update_config or
\* process_samples begins only when no other is in progress.
SeqNext ==
    \/ Start
    \/ \E f \in Frequencies : ProcessorIdle /\ Tune(f)
    \/ \E sr \in SampleRates \cup {None}, n \in FftSizes \cup {None} :
          ProcessorIdle /\ UpdateConfigCall(sr, n)
    \/ UpdateSampleRate
    \/ UpdateCenterFrequency
    \/ UpdateFftSize
    \/ UpdateWindow
    \/ UpdateFrequencyArray
    \/ \E p \in PluginNames, b \in BOOLEAN : SetEnabled(p, b)
    \/ \E n \in ChunkLens : DspDispatch(n)
    \/ \E p \in PluginNames : StageBegin(p)
    \/ \E p \in ProcessorStages : ProcessorIdle /\ ProcessBegin(p)
    \/ \E p \in ProcessorStages : ProcessWindow(p)
    \/ \E p \in ProcessorStages : ProcessSmooth(p)
    \/ \E p \in ProcessorStages : ProcessStore(p)
    \/ \E p \in ProcessorStages : ProcessReturn(p)
    \/ \E outcome \in {"audio", "error", "empty"} : Demodulate(outcome)
    \/ \E p \in PluginNames : StageEnd(p)
    \/ BuildSpectrumData

DspSeqSpec == Init /\ [][SeqNext]_vars

\* The plugins on a processor that is not reconfigured.
PluginNext ==
    \/ Start
    \/ \E p \in PluginNames, b \in BOOLEAN : SetEnabled(p, b)
    \/ \E n \in ChunkLens : DspDispatch(n)
    \/ \E p \in PluginNames : StageBegin(p)
    \/ \E p \in ProcessorStages : ProcessBegin(p)
    \/ \E p \in ProcessorStages : ProcessWindow(p)
    \/ \E p \in ProcessorStages : ProcessSmooth(p)
    \/ \E p \in ProcessorStages : ProcessStore(p)
    \/ \E p \in ProcessorStages : ProcessReturn(p)
    \/ \E outcome \in {"audio", "error", "empty"} : Demodulate(outcome)
    \/ \E p \in PluginNames : StageEnd(p)
    \/ BuildSpectrumData

PluginSpec == Init /\ [][PluginNext]_vars

\* The demodulator plugin under set_demodulation, stop() and the polls of
\* the streaming task, on a processor that is not reconfigured.
AudioNext ==
    \/ Start
    \/ Stop
    \/ \E m \in {"AM", "FM", "SPECTRUM"} : nCalls < MaxCalls /\ SetDemodulation(m, None)
    \/ DspDispatch(4096)
    \/ \E p \in PluginNames : StageBegin(p)
    \/ \E p \in ProcessorStages : ProcessBegin(p)
    \/ \E p \in ProcessorStages : ProcessWindow(p)
    \/ \E p \in ProcessorStages : ProcessSmooth(p)
    \/ \E p \in ProcessorStages : ProcessStore(p)
    \/ \E p \in ProcessorStages : ProcessReturn(p)
    \/ \E outcome \in {"audio", "error", "empty"} : Demodulate(outcome)
    \/ \E p \in PluginNames : StageEnd(p)
    \/ BuildSpectrumData
    \/ get_audio_data

AudioSpec == Init /\ [][AudioNext]_vars

\* The place of a plugin in self.plugins.
PluginIndex(p) == CHOOSE i \in 1..Len(Plugins) : Plugins[i] = p

\* The tasks of a gather begin in list order, each up to its first await.
BeginsInOrder(p) ==
    \A q \in PluginNames : PluginIndex(q) < PluginIndex(p) => stage[q] # "created"

\* The executor takes the job of p once the stages before it have ended.
RunsInOrder(p) ==
    \A q \in PluginNames :
       PluginIndex(q) < PluginIndex(p) => stage[q] \notin {"created", "running"}

\* The audio buffer of the demodulator plugin under set_demodulation and
\* stop()/start(), with the executor jobs of a cycle run one at a time in
\* the order they were submitted.
BufferNext ==
    \/ Start
    \/ Stop
    \/ \E m \in {"FM", "SPECTRUM"} : nCalls < MaxCalls /\ SetDemodulation(m, None)
    \/ DspDispatch(4096)
    \/ \E p \in PluginNames : BeginsInOrder(p) /\ StageBegin(p)
    \/ \E p \in ProcessorStages : RunsInOrder(p) /\ ProcessBegin(p)
    \/ \E p \in ProcessorStages : ProcessWindow(p)
    \/ \E p \in ProcessorStages : ProcessSmooth(p)
    \/ \E p \in ProcessorStages : ProcessStore(p)
    \/ \E p \in ProcessorStages : ProcessReturn(p)
    \/ \E outcome \in {"audio", "error", "empty"} :
          RunsInOrder("DemodulatorPlugin") /\ Demodulate(outcome)
    \/ \E p \in PluginNames : StageEnd(p)
    \/ BuildSpectrumData

BufferSpec == Init /\ [][BufferNext]_vars

\* The path of a chunk from the tuner to its response, with tune() calls on
\* the way.  The event loop runs one callback at a time: a handler begins
\* only when no update_config is in progress and no stop() is in its join.
TagNext ==
    \/ EventLoopFree /\ Start
    \/ EventLoopFree /\ StopBegin
    \/ StopJoinReturn
    \/ \E t \in Threads : SupWorker(t)
    \/ EventLoopFree /\ GetSpectrumDataEmpty
    \/ EventLoopFree /\ Dispatch
    \/ \E p \in PluginNames : EventLoopFree /\ StageReturn(p)
    \/ EventLoopFree /\ RunWithSupervisionReturn
    \/ \E f \in Frequencies : ~stopping /\ Tune(f)
    \/ UpdateSampleRate
    \/ UpdateCenterFrequency
    \/ UpdateFftSize
    \/ UpdateFrequencyArray

TagSpec == Init /\ [][TagNext]_vars

\* The control calls: start(), tune() and set_demodulation() with valid and
\* invalid arguments, on a device that takes or rejects the writes.
CtlNext ==
    \/ EventLoopFree /\ Start
    \/ \E f \in TuneRequests, g \in GainRequests, dev \in DeviceOutcomes :
          nCalls < MaxCalls /\ TuneCall(f, g, dev)
    \/ \E m \in ModeRequests, bw \in BandwidthRequests :
          nCalls < MaxCalls /\ SetDemodulation(m, bw)
    \/ UpdateSampleRate
    \/ UpdateCenterFrequency
    \/ UpdateFftSize
    \/ UpdateFrequencyArray

CtlSpec == Init /\ [][CtlNext]_vars

\* The three paths that set an FFT size, on the running controller.
FftNext ==
    \/ Start
    \/ \E n \in FftRequests : ConfigManagerSet(n)
    \/ \E n \in FftRequests : update_sdr_config(n)
    \/ \E sr \in SampleRates \cup {None}, n \in FftRequests \cup {None} :
          UpdateConfigCall(sr, n)
    \/ UpdateSampleRate
    \/ UpdateCenterFrequency
    \/ UpdateFftSize
    \/ UpdateWindow
    \/ UpdateFrequencyArray

FftSpec == Init /\ [][FftNext]_vars

(***************************************************************************)
(* AudioDemodulators: am_demodulate, fm_demodulate, ssb_demodulate,        *)
(* cw_demodulate                                                           *)
(***************************************************************************)

\* self.audio_sample_rate of AudioDemodulators, in Hz.
audio_sample_rate == 48000

\* The arguments of a demodulator call: the function, the mode argument of
\* ssb_demodulate, the length of iq_samples (an empty chunk, a short and a
\* long one), sample_rate in Hz (the audio rate and the tuner rate) and the
\* bandwidth.
DemodulatorFunctions == {"am_demodulate", "fm_demodulate", "ssb_demodulate",
                         "cw_demodulate"}
SsbModes == {"usb", "LSB", "dsb"}
InputLens == {0, 120, 4096}
InputRates == {audio_sample_rate, 2400000}
InputBandwidths == {None, 15000}

\* Sample values are in thousandths of full scale.  The peak of the audio a
\* demodulator has before its AGC (silence, weak, moderate, far over full
\* scale) and the smoothed envelope the AGC finds at the peak sample.
FullScale == 1000
Amplitudes == {0, 20, 800, 30000}
Envelopes == {0, 10, 500, 40000}

\* The numpy or scipy call of a demodulator call that raises: none, one in
\* the body of the demodulator, or one inside a helper.
Faults == {"none", "body", "filter", "resample", "agc"}

\* The body of the demodulator raises before it has its audio: a numpy call
\* fails; I[0] of fm_demodulate on an empty chunk is an IndexError; the
\* lower-cased mode of ssb_demodulate is neither 'usb' nor 'lsb'.
BodyRaises(c) ==
    \/ c.fault = "body"
    \/ c.fn = "fm_demodulate" /\ c.len = 0
    \/ c.fn = "ssb_demodulate" /\ c.mode \notin {"usb", "lsb", "USB", "LSB"}

\* The `except Exception` of a demodulator:
\* return np.zeros(len(iq_samples), dtype=np.float32).
ZeroAudio(c) == [len |-> c.len, zeros |-> TRUE, peak |-> 0]

\* What no step of a demodulator writes.
demodUnchanged == <<dspVars, coreVars, tuneVars, tagVars, config_fft_size, audioVars,
                    svcVars>>

\* A demodulator is called on a chunk of iq_samples.
DemodulatorCall(fn, m, len, rate, bw, fault, amp) ==
    /\ demod_call.pc = "idle"
    /\ (fn = "ssb_demodulate") = (m # "none")
    /\ (len = 0) => (amp = 0)
    /\ demod_call' = [pc |-> "called", fn |-> fn, mode |-> m, len |-> len,
                      sample_rate |-> rate, bandwidth |-> bw, fault |-> fault,
                      amplitude |-> amp, audio |-> 0, filtered |-> FALSE,
                      result |-> [len |-> 0, zeros |-> FALSE, peak |-> 0]]
    /\ UNCHANGED demodUnchanged

\* Variant of DemodulatorBody with no try/except around the body.
DemodulatorBodyUnguarded ==
    /\ demod_call.pc = "called"
    /\ demod_call' =
          IF BodyRaises(demod_call)
             THEN [demod_call EXCEPT !.pc = "raised"]
             ELSE [demod_call EXCEPT !.pc = "detected", !.audio = demod_call.len]
    /\ UNCHANGED demodUnchanged

\* The body of a demodulator up to its audio, one value per input sample
\* (envelope, quadrature detector, sideband, BFO mix); when it raises, the
\* `except Exception` returns zeros.
DemodulatorBody ==
    /\ demod_call.pc = "called"
    /\ demod_call' =
          IF BodyRaises(demod_call)
             THEN [demod_call EXCEPT !.pc = "returned", !.result = ZeroAudio(demod_call)]
             ELSE [demod_call EXCEPT !.pc = "detected", !.audio = demod_call.len]
    /\ UNCHANGED demodUnchanged

\* The audio filters: am_demodulate filters when bandwidth is given and
\* below sample_rate / 2, fm_demodulate when bandwidth is given (and
\* de-emphasis), ssb_demodulate and cw_demodulate always.  A filter keeps
\* the length, and _apply_audio_filter returns its input when it raises.
apply_audio_filter ==
    /\ demod_call.pc = "detected"
    /\ demod_call' =
          [demod_call EXCEPT
             !.pc = "filtered",
             !.filtered =
                /\ demod_call.fault # "filter"
                /\ CASE demod_call.fn = "am_demodulate" ->
                           /\ demod_call.bandwidth # None
                           /\ 2 * demod_call.bandwidth < demod_call.sample_rate
                       [] demod_call.fn = "fm_demodulate" -> demod_call.bandwidth # None
                       [] OTHER -> TRUE]
    /\ UNCHANGED demodUnchanged

\* The greatest common divisor of two positive rates.
RECURSIVE Gcd(_, _)
Gcd(a, b) == IF b = 0 THEN a ELSE Gcd(b, a % b)

\* resample_ratio = output_rate / input_rate;
\* int(len(audio) * resample_ratio), the ratio in lowest terms.
OutputLength(len, input_rate, output_rate) ==
    LET g == Gcd(output_rate, input_rate)
    IN  (len * (output_rate \div g)) \div (input_rate \div g)

\* if sample_rate != self.audio_sample_rate: _resample_audio, which returns
\* its input when scipy's resample raises.
resample_audio ==
    /\ demod_call.pc = "filtered"
    /\ demod_call' =
          [demod_call EXCEPT
             !.pc = "resampled",
             !.audio =
                IF demod_call.sample_rate = audio_sample_rate \/ demod_call.fault = "resample"
                   THEN @
                   ELSE OutputLength(@, demod_call.sample_rate, audio_sample_rate)]
    /\ UNCHANGED demodUnchanged

\* target_level of the _apply_agc call of each demodulator.
target_level(fn) ==
    CASE fn = "am_demodulate"  -> 300
      [] fn = "fm_demodulate"  -> 400
      [] fn = "ssb_demodulate" -> 400
      [] fn = "cw_demodulate"  -> 500

\* np.clip(x, lo, hi)
Clip(x, lo, hi) == IF x < lo THEN lo ELSE IF x > hi THEN hi ELSE x

\* window_size = max(1, int(len(audio) * 0.01))
window_size(len) == IF len \div 100 < 1 THEN 1 ELSE len \div 100

\* _apply_agc raises inside its try: a numpy call fails, or filtfilt is
\* given audio longer than the window but no longer than its padding of
\* three windows.
AgcRaises(c) ==
    \/ c.fault = "agc"
    \/ c.audio > window_size(c.audio) /\ c.audio <= 3 * window_size(c.audio)

\* The gain at the peak sample, in thousandths: 1 where the envelope is not
\* above 1e-10, else target_level / envelope clipped to 0.1 .. 10.
AgcGain(c, envelope) ==
    IF envelope = 0 THEN 1000
    ELSE Clip((target_level(c.fn) * 1000) \div envelope, 100, 10000)

\* Variant of AgcPeak with no final np.clip.
AgcPeakUnclipped(c, envelope) ==
    IF c.audio = 0 THEN 0
    ELSE IF AgcRaises(c)
       THEN IF c.amplitude > 0 THEN target_level(c.fn) ELSE c.amplitude
    ELSE (c.amplitude * AgcGain(c, envelope)) \div 1000

\* The peak of what _apply_agc returns: the audio as it is when empty; in
\* the `except`, audio / max_val * target_level, or the audio when its peak
\* is 0; else audio * gain and then np.clip(audio, -1.0, 1.0).
AgcPeak(c, envelope) ==
    IF c.audio = 0 THEN 0
    ELSE IF AgcRaises(c)
       THEN IF c.amplitude > 0 THEN target_level(c.fn) ELSE c.amplitude
    ELSE Clip((c.amplitude * AgcGain(c, envelope)) \div 1000, 0, FullScale)

\* _apply_agc and return audio.astype(np.float32).
apply_agc(envelope) ==
    /\ demod_call.pc = "resampled"
    /\ demod_call' = [demod_call EXCEPT
                        !.pc = "returned",
                        !.result = [len |-> demod_call.audio, zeros |-> FALSE,
                                    peak |-> AgcPeak(demod_call, envelope)]]
    /\ UNCHANGED demodUnchanged

\* One call of a demodulator, from its arguments to its return.
DemodNext ==
    \/ \E fn \in DemodulatorFunctions, m \in SsbModes \cup {"none"}, len \in InputLens,
          rate \in InputRates, bw \in InputBandwidths, fault \in Faults,
          amp \in Amplitudes :
          DemodulatorCall(fn, m, len, rate, bw, fault, amp)
    \/ DemodulatorBody
    \/ apply_audio_filter
    \/ resample_audio
    \/ \E envelope \in Envelopes : apply_agc(envelope)

DemodSpec == Init /\ [][DemodNext]_vars

(***************************************************************************)
(* DemodulatorPlugin._demodulate around a demodulator call                 *)
(***************************************************************************)

\* config.rtlsdr_sample_rate, the sample_rate the DemodulatorPlugin is built
\* with, in Hz.
rtlsdr_sample_rate == 2400000

\* The lengths of a chunk of iq_samples (an empty chunk, a short one, and
\* the read_size of the acquisition worker) and the values of self.bandwidth.
IqLens == {0, 2500, 239616}
PluginBandwidths == {2700, 15000, 200000}

\* padlen of filtfilt for the butter(4, ...) filter: 3 * max(len(a), len(b)).
padlen == 15

\* The demodulator _demodulate calls for self.mode.
DemodulatorOf(md) ==
    CASE md = "AM" -> "am_demodulate"
      [] md = "FM" -> "fm_demodulate"
      [] md \in {"USB", "LSB"} -> "ssb_demodulate"
      [] md = "CW" -> "cw_demodulate"

\* _demodulate calls the demodulator of self.mode on the chunk with
\* self.sample_rate and no bandwidth: ssb_demodulate with 'usb' or 'lsb',
\* cw_demodulate(iq_samples, 600, self.sample_rate), whose second parameter
\* is sample_rate.
DemodulateCall(md, bw, len, fault, amp, raised) ==
    /\ demod_call.pc = "idle"
    /\ (len = 0) => (amp = 0)
    /\ demod_call' =
          [pc |-> "called", fn |-> DemodulatorOf(md),
           mode |-> CASE md = "USB" -> "usb" [] md = "LSB" -> "lsb" [] OTHER -> "none",
           len |-> len,
           sample_rate |-> IF md = "CW" THEN 600 ELSE rtlsdr_sample_rate,
           bandwidth |-> None, fault |-> fault, amplitude |-> amp, audio |-> 0,
           filtered |-> FALSE, result |-> [len |-> 0, zeros |-> FALSE, peak |-> 0],
           plugin |-> [mode |-> md, bandwidth |-> bw, len |-> len, raised |-> raised],
           audio_samples |-> None, extended |-> 0]
    /\ UNCHANGED demodUnchanged

\* The rest of _demodulate: the audio the demodulator returned is resampled
\* to int(len(audio) * self.audio_sample_rate / self.sample_rate) samples,
\* low-pass filtered with filtfilt when self.bandwidth is below
\* self.audio_sample_rate / 2, and normalised.  filtfilt raises on audio no
\* longer than padlen; where a call raises, _demodulate returns None.
DemodulateResample ==
    /\ demod_call.pc = "returned"
    /\ LET n == IF rtlsdr_sample_rate # audio_sample_rate
                   THEN OutputLength(demod_call.result.len, rtlsdr_sample_rate,
                                     audio_sample_rate)
                   ELSE demod_call.result.len
           filtfiltRaises == /\ 2 * demod_call.plugin.bandwidth < audio_sample_rate
                             /\ n <= padlen
       IN  demod_call' =
              [demod_call EXCEPT
                 !.pc = "demodulated",
                 !.audio_samples =
                    IF demod_call.plugin.raised \/ filtfiltRaises THEN None ELSE n]
    /\ UNCHANGED demodUnchanged

\* process() after its await: 'no_output' when audio_samples is None or
\* empty, else self.audio_buffer.extend(audio_samples).
ProcessExtend ==
    /\ demod_call.pc = "demodulated"
    /\ demod_call' = [demod_call EXCEPT !.pc = "extended",
                                        !.extended = demod_call.audio_samples]
    /\ UNCHANGED demodUnchanged

\* One cycle of the Demodulator stage on one chunk.
ResampleNext ==
    \/ \E md \in DemodulatedModes, bw \in PluginBandwidths, len \in IqLens,
          fault \in Faults, amp \in Amplitudes, raised \in BOOLEAN :
          DemodulateCall(md, bw, len, fault, amp, raised)
    \/ DemodulatorBody
    \/ apply_audio_filter
    \/ resample_audio
    \/ \E envelope \in Envelopes : apply_agc(envelope)
    \/ DemodulateResample
    \/ ProcessExtend

ResampleSpec == Init /\ [][ResampleNext]_vars

(***************************************************************************)
(* WebSocketManager                                                        *)
(***************************************************************************)

\* list.remove(websocket) under `if websocket in list`
Remove(list, w) == SelectSeq(list, LAMBDA x : x # w)

\* The websockets of a client list.
Members(list) == {list[i] : i \in 1..Len(list)}

\* del self.client_stats[client_id] under `if client_id in self.client_stats`
DelStats(w) == [x \in DOMAIN client_stats \ {w} |-> client_stats[x]]

\* self.client_stats[client_id] = {..., 'messages_sent': 0, ...}
NewStats(w) == [x \in DOMAIN client_stats \cup {w} |->
                  IF x = w THEN 0 ELSE client_stats[x]]

\* What no WebSocketManager method writes.
wsUnchanged == <<dspVars, coreVars, tuneVars, tagVars, config_fft_size, audioVars,
                 demod_call, retry>>

\* _handle_disconnect: the websocket leaves every client list, the
\* active connections and the statistics.
handle_disconnect(w) ==
    /\ spectrum_clients' = Remove(spectrum_clients, w)
    /\ audio_clients' = Remove(audio_clients, w)
    /\ active_connections' = active_connections \ {w}
    /\ client_stats' = DelStats(w)

\* The /ws/spectrum endpoint on a new websocket: connect_spectrum accepts
\* it, appends it to spectrum_clients, adds it to active_connections and
\* client_stats, and sends the connection status with _send_safe, which
\* calls _handle_disconnect when the send raises.
connect_spectrum(w, greeted) ==
    /\ w = nConnects + 1
    /\ nConnects' = w
    /\ IF greeted
          THEN /\ spectrum_clients' = Append(spectrum_clients, w)
               /\ active_connections' = active_connections \cup {w}
               /\ client_stats' = NewStats(w)
               /\ sockets' = [sockets EXCEPT ![w] = "open"]
          ELSE /\ sockets' = [sockets EXCEPT ![w] = "closed"]
               /\ UNCHANGED <<spectrum_clients, active_connections, client_stats>>
    /\ UNCHANGED <<audio_clients, message_counts, received, broadcast>>
    /\ UNCHANGED wsUnchanged

\* The /ws/audio endpoint on a new websocket: connect_audio.
connect_audio(w, greeted) ==
    /\ w = nConnects + 1
    /\ nConnects' = w
    /\ IF greeted
          THEN /\ audio_clients' = Append(audio_clients, w)
               /\ active_connections' = active_connections \cup {w}
               /\ client_stats' = NewStats(w)
               /\ sockets' = [sockets EXCEPT ![w] = "open"]
          ELSE /\ sockets' = [sockets EXCEPT ![w] = "closed"]
               /\ UNCHANGED <<audio_clients, active_connections, client_stats>>
    /\ UNCHANGED <<spectrum_clients, message_counts, received, broadcast>>
    /\ UNCHANGED wsUnchanged

\* The client of a spectrum websocket goes away: receive_text raises in the
\* endpoint, whose `finally` calls disconnect_spectrum.
disconnect_spectrum(w) ==
    /\ sockets[w] = "open"
    /\ w \in Members(spectrum_clients)
    /\ sockets' = [sockets EXCEPT ![w] = "closed"]
    /\ spectrum_clients' = Remove(spectrum_clients, w)
    /\ active_connections' = active_connections \ {w}
    /\ client_stats' = DelStats(w)
    /\ UNCHANGED <<audio_clients, message_counts, received, broadcast, nConnects>>
    /\ UNCHANGED wsUnchanged

\* broadcast_spectrum up to its gather: with clients, one _send_with_stats
\* task per websocket of a copy of spectrum_clients.  (With no client it
\* returns at once and changes nothing.)
broadcast_spectrum ==
    /\ broadcast.pc # "gather"
    /\ spectrum_clients # <<>>
    /\ message_counts.spectrum < MaxBroadcasts
    /\ broadcast' = [pc |-> "gather", message |-> message_counts.spectrum + 1,
                     snapshot |-> Members(spectrum_clients),
                     tasks |-> Members(spectrum_clients), failed |-> {}]
    /\ UNCHANGED <<spectrum_clients, audio_clients, active_connections,
                   client_stats, message_counts, sockets, received, nConnects>>
    /\ UNCHANGED wsUnchanged

\* Variant of send_with_stats with no `except`: the exception of a failed
\* send ends the task and gather keeps it as a result.
send_with_stats_unguarded(w, sent) ==
    /\ broadcast.pc = "gather"
    /\ w \in broadcast.tasks
    /\ sent => sockets[w] = "open"
    /\ IF sent
          THEN /\ received' = [received EXCEPT ![w] = @ \cup {broadcast.message}]
               /\ client_stats' = IF w \in DOMAIN client_stats
                                     THEN [client_stats EXCEPT ![w] = @ + 1]
                                     ELSE client_stats
               /\ broadcast' = [broadcast EXCEPT !.tasks = @ \ {w}]
               /\ UNCHANGED <<spectrum_clients, audio_clients, active_connections,
                              sockets>>
          ELSE /\ sockets' = [sockets EXCEPT ![w] = "closed"]
               /\ broadcast' = [broadcast EXCEPT !.tasks = @ \ {w},
                                                 !.failed = @ \cup {w}]
               /\ UNCHANGED <<spectrum_clients, audio_clients, active_connections,
                              client_stats, received>>
    /\ UNCHANGED <<message_counts, nConnects>>
    /\ UNCHANGED wsUnchanged

\* _send_with_stats of one task of the gather: send_text, then the
\* statistics of a client that still has them; when send_text raises
\* (WebSocketDisconnect or any Exception, as it does on a closed
\* websocket), _handle_disconnect and return False.
send_with_stats(w, sent) ==
    /\ broadcast.pc = "gather"
    /\ w \in broadcast.tasks
    /\ sent => sockets[w] = "open"
    /\ IF sent
          THEN /\ received' = [received EXCEPT ![w] = @ \cup {broadcast.message}]
               /\ client_stats' = IF w \in DOMAIN client_stats
                                     THEN [client_stats EXCEPT ![w] = @ + 1]
                                     ELSE client_stats
               /\ broadcast' = [broadcast EXCEPT !.tasks = @ \ {w}]
               /\ UNCHANGED <<spectrum_clients, audio_clients, active_connections,
                              sockets>>
          ELSE /\ handle_disconnect(w)
               /\ sockets' = [sockets EXCEPT ![w] = "closed"]
               /\ broadcast' = [broadcast EXCEPT !.tasks = @ \ {w},
                                                 !.failed = @ \cup {w}]
               /\ UNCHANGED received
    /\ UNCHANGED <<message_counts, nConnects>>
    /\ UNCHANGED wsUnchanged

\* The gather of broadcast_spectrum is done:
\* self.message_counts['spectrum'] += 1.
broadcast_return ==
    /\ broadcast.pc = "gather"
    /\ broadcast.tasks = {}
    /\ message_counts' = [message_counts EXCEPT !.spectrum = @ + 1]
    /\ broadcast' = [broadcast EXCEPT !.pc = "returned"]
    /\ UNCHANGED <<spectrum_clients, audio_clients, active_connections,
                   client_stats, sockets, received, nConnects>>
    /\ UNCHANGED wsUnchanged

\* Spectrum clients coming and going.
LimitNext ==
    \/ \E w \in WebSockets, greeted \in BOOLEAN : connect_spectrum(w, greeted)
    \/ \E w \in WebSockets : disconnect_spectrum(w)

LimitSpec == Init /\ [][LimitNext]_vars

\* Broadcasts to a few spectrum and audio clients that come and go.
BroadcastNext ==
    \/ \E w \in WebSockets, greeted \in BOOLEAN :
          nConnects < MaxClients /\ connect_spectrum(w, greeted)
    \/ \E w \in WebSockets : nConnects < MaxClients /\ connect_audio(w, TRUE)
    \/ \E w \in WebSockets : disconnect_spectrum(w)
    \/ broadcast_spectrum
    \/ \E w \in WebSockets, sent \in BOOLEAN : send_with_stats(w, sent)
    \/ broadcast_return

BroadcastSpec == Init /\ [][BroadcastNext]_vars

(***************************************************************************)
(* ErrorHandler.retry_async, retry_sync                                    *)
(***************************************************************************)

\* self.max_retries of the module's error_handler = ErrorHandler().
DefaultMaxRetries == 3

\* The exceptions the retried function raises.
RetryErrors == {"ConnectionError", "TimeoutError"}

\* Python's `x or y` on an Optional[int]: y for None and for 0.
Or(x, y) == IF x = None \/ x = 0 THEN y ELSE x

\* What no step of a retry writes.
retryUnchanged == <<dspVars, coreVars, tuneVars, tagVars, config_fft_size, audioVars,
                    demod_call, wsVars>>

\* retry_async / retry_sync is called with max_retries = n:
\* max_retries = max_retries or self.max_retries; last_error = None.
RetryCall(fn, n) ==
    /\ retry.pc = "idle"
    /\ retry' = [pc |-> "loop", fn |-> fn, n |-> n,
                 max_retries |-> Or(n, DefaultMaxRetries), attempt |-> 0,
                 calls |-> 0, errors |-> <<>>, last_error |-> "None",
                 raised |-> "None"]
    /\ UNCHANGED retryUnchanged

\* One pass of `for attempt in range(max_retries + 1)`: func is invoked;
\* its result is returned, or its exception becomes last_error and, after
\* the sleep, the next attempt follows; after the last attempt the loop
\* ends and `raise last_error`.
RetryAttempt(outcome) ==
    /\ retry.pc = "loop"
    /\ retry' =
          IF outcome = "ok"
             THEN [retry EXCEPT !.pc = "returned", !.calls = @ + 1]
          ELSE IF retry.attempt < retry.max_retries
             THEN [retry EXCEPT !.calls = @ + 1, !.attempt = @ + 1,
                                !.errors = Append(@, outcome),
                                !.last_error = outcome]
          ELSE [retry EXCEPT !.pc = "raised", !.calls = @ + 1,
                             !.errors = Append(@, outcome),
                             !.last_error = outcome, !.raised = outcome]
    /\ UNCHANGED retryUnchanged

\* One retry call, from its arguments to its end.
RetryNext ==
    \/ \E fn \in {"retry_async", "retry_sync"}, n \in 0..MaxRetriesArg : RetryCall(fn, n)
    \/ \E outcome \in RetryErrors \cup {"ok"} : RetryAttempt(outcome)

RetrySpec == Init /\ [][RetryNext]_vars

TypeOK ==
    /\ is_running \in BOOLEAN /\ is_connected \in BOOLEAN /\ stopping \in BOOLEAN
    /\ sdr \in {"None", "RtlSdr"}
    /\ acquisition_thread \in Threads \cup {0}
    /\ Len(data_queue) <= QueueMaxSize
    /\ inflight \in 0..1

(***************************************************************************)
(* Claims                                                                  *)
(***************************************************************************)

\* Threads at the enqueue steps of the loop, holding a chunk just read.
Enqueuing == {t \in Threads : pc[t] \in {"put", "full", "reput"}}

\* No second thread has ever been started beside a live one (start() takes
\* the lowest free slot, so slot 2 is used only then).
SingleWorker == pc[2] = "none"

\* stop() has returned for thread t: t is alive, no stop() is in its join,
\* and t is the thread of an earlier start() or is_running is still False.
StopReturnedFor(t) ==
    /\ Alive(t)
    /\ ~stopping
    /\ (t # acquisition_thread \/ ~is_running)

\* C1: a stage whose process() raises yields a result with success=False in
\* the same cycle; the cycle returns its list normally, with every sibling
\* stage run to completion and reported by what it did.
C1_ExceptionIsolated ==
    /\ \A p \in PluginNames : process[p] = "raised" => results[p] = "failure"
    /\ (~awaiting /\ total_executions > 0) =>
          \A p \in PluginNames :
             /\ process[p] \in {"returned", "raised"}
             /\ latest_results[p] = (IF process[p] = "raised" THEN "failure" ELSE "success")

C1_Witness ==
    /\ ~awaiting
    /\ nCompleted > 0
    /\ \E p, q \in PluginNames :
          /\ process[p] = "raised" /\ latest_results[p] = "failure"
          /\ process[q] = "returned" /\ latest_results[q] = "success"

\* C2: whatever stages raise, every chunk taken off the queue has its
\* dispatch cycle completed: a cycle that has begun always ends, between
\* cycles the completed cycles equal the chunks dequeued (during a cycle
\* they are one behind), and a raising stage leaves the acquisition worker
\* and the queue as they are.
C2_CyclesUnaffectedByFailures ==
    /\ [](nCompleted = total_executions - (IF awaiting THEN 1 ELSE 0))
    /\ (awaiting ~> ~awaiting)
    /\ [][(\E p \in PluginNames : process[p] # "raised" /\ process'[p] = "raised")
           => UNCHANGED <<workerVars, data_queue, is_running>>]_vars

C2_Witness ==
    /\ ~awaiting
    /\ nCompleted >= 2
    /\ total_failures = Len(Plugins) * nCompleted
    /\ \E t \in Threads : pc[t] = "reading"

\* C3: with one acquisition worker and nothing dequeued, once more than
\* QueueMaxSize chunks have been pushed the queue holds exactly the
\* QueueMaxSize most recently read chunks, in read order.
C3_DropOldestKeepsNewest ==
    (/\ SingleWorker
     /\ total_executions = 0
     /\ Enqueuing = {}
     /\ chunksRead > QueueMaxSize)
    => data_queue = [i \in 1..QueueMaxSize |-> chunksRead - QueueMaxSize + i]

C3_Witness ==
    /\ SingleWorker
    /\ total_executions = 0
    /\ Enqueuing = {}
    /\ chunksRead > QueueMaxSize + 1
    /\ Len(data_queue) = QueueMaxSize
    /\ data_queue[1] = chunksRead - QueueMaxSize + 1

\* C4 (as claimed): with one acquisition worker, whenever the worker is done
\* with the chunk it read, that chunk is in the queue.
C4_EveryChunkInserted ==
    [][\A t \in Threads :
          (SingleWorker' /\ samples[t] # 0 /\ samples'[t] = 0)
          => \E i \in 1..Len(data_queue') : data_queue'[i] = samples[t]]_vars

\* C5 (as claimed): chunks are dispatched in the order the device yielded
\* them: each dispatched chunk is a later one than the one before.
C5_DispatchInReadOrder ==
    [][cycleChunk' # cycleChunk => cycleChunk' > cycleChunk]_vars

\* C6: at most one run_with_supervision is in progress, it is the one the
\* streaming task awaits, and no stage task is running between cycles.
C6_OneCycleAtATime ==
    /\ inflight <= 1
    /\ awaiting <=> inflight = 1
    /\ ~awaiting => \A p \in PluginNames : process[p] # "running"

C6_Witness ==
    /\ inflight = 1
    /\ is_running
    /\ ~stopping
    /\ data_queue # <<>>
    /\ \E p \in PluginNames : process[p] = "running"

\* C7 (as claimed): at most one acquisition thread is at the enqueue steps
\* of its loop.
C7_SoleProducer == Cardinality(Enqueuing) <= 1

\* C8 (as claimed): once the acquisition thread has left its loop on a read
\* error, the status reports running = false and connected = false.
C8_ReadErrorStopsController ==
    (acquisition_thread # 0 /\ pc[acquisition_thread] = "read_error")
    => (~get_status.running /\ ~get_status.connected)

\* C9 (as claimed): a read that raises while the controller is running does
\* not end the worker: the thread stays in its loop.
C9_ReadErrorKeepsLooping ==
    [][\A t \in Threads :
          (pc[t] = "reading" /\ is_running /\ pc'[t] \notin {"reading", "put"})
          => pc'[t] = "loop"]_vars

\* C10 (as claimed): after stop() has returned, the thread it stopped is in
\* no device read and at no enqueue step, and no read runs on a closed
\* handle.
C10_QuiescentAfterStop ==
    \A t \in Threads :
       /\ handle[t] # "closed"
       /\ StopReturnedFor(t) => pc[t] \notin {"reading", "put", "full", "reput"}

\* C11: the supervisor's per-stage counters follow each stage alone: between
\* cycles a stage's failure count is the number of cycles in which it raised
\* and its success count the number of all other cycles, so with one stage
\* raising in each of k cycles its failure count is k and every other
\* stage's success count is k.
C11_CountersPerStage ==
    ~awaiting =>
       \A p \in PluginNames :
          /\ plugin_stats[p].failure = nRaised[p]
          /\ plugin_stats[p].success = nCompleted - nRaised[p]

C11_Witness ==
    /\ ~awaiting
    /\ nCompleted = MaxCycles
    /\ \E p \in PluginNames :
          /\ nRaised[p] = MaxCycles
          /\ plugin_stats[p].failure = MaxCycles
          /\ \A q \in PluginNames \ {p} :
                nRaised[q] = 0 /\ plugin_stats[q].success = MaxCycles

\* C12: the list run_with_supervision returns has one result per plugin of
\* the plugin list, in list order, each reporting what its own stage did,
\* also when every stage failed.
C12_OneResultPerStageInOrder ==
    nCompleted > 0 =>
       /\ Len(returned) = Len(Plugins)
       /\ \A i \in 1..Len(Plugins) :
             /\ returned[i].plugin_name = Plugins[i]
             /\ ~awaiting => (returned[i].success <=> process[Plugins[i]] = "returned")

C12_Witness ==
    /\ ~awaiting
    /\ nCompleted > 0
    /\ Len(returned) = Len(Plugins)
    /\ \A i \in 1..Len(Plugins) :
          process[Plugins[i]] = "raised" /\ ~returned[i].success

\* process() of plugin p has ended in this cycle.
StageEnded(p) == stage[p] \in {"disabled", "success", "no_output"}

\* C13 (as claimed): when the computation inside a stage has failed, the
\* supervisor's result for the stage is a failure and the stage has counted
\* a failure.
C13_ProcessingErrorIsStageFailure ==
    \A p \in PluginNames :
       (job[p].error /\ StageEnded(p))
       => (StageSupervised(p) = "failure" /\ counters[p].failure_count > 0)

\* C14: a stage whose enabled flag is false ends its process() as
\* 'disabled' in its first step: nothing is handed to the executor, and its
\* counters and buffer stay as they were for the whole cycle.
C14_DisabledStageDoesNothing ==
    /\ [](\A p \in PluginNames : stage[p] = "disabled" => job[p] = NoJob)
    /\ [][\A p \in PluginNames :
             (~enabled[p] /\ stage[p] \in {"created", "disabled"})
             => /\ stage'[p] \in {stage[p], "disabled", "idle"}
                /\ counters'[p] = counters[p]
                /\ buffers'[p] = buffers[p]
                /\ job'[p] = NoJob]_vars

C14_Witness ==
    /\ \E p \in PluginNames :
          stage[p] = "disabled" /\ counters[p].call_count > 0 /\ job[p] = NoJob
    /\ \E q \in ProcessorStages : job[q].pc = "store"

\* C15 (as claimed): each process_samples call returns a frequency array
\* and a power array whose lengths are the current fft_size.
C15_SpectrumShape ==
    [][\A p \in ProcessorStages :
          (job[p].pc # "done" /\ job'[p].pc = "done")
          => (job'[p].frequencies.len = fft_size /\ job'[p].spectrum.len = fft_size)]_vars

\* C16 (as claimed): a process_samples call that finds no previous spectrum,
\* or is the first since fft_size or sample_rate changed, applies no
\* smoothing and goes on to store its raw result.
C16_FirstCallAfterResetUnsmoothed ==
    [][\A p \in ProcessorStages :
          (/\ job[p].pc = "smooth" /\ job'[p].pc # "smooth"
           /\ (previous_spectrum = NoSpectrum \/ changed))
          => (job'[p].pc = "store" /\ ~job'[p].spectrum.smoothed)]_vars

\* C17 (as claimed): the window and the frequency axis a process_samples
\* call works with have the length of the fft_size the call read.
C17_ConsistentLengths ==
    [][\A p \in ProcessorStages :
          /\ (job[p].pc = "window" /\ job'[p].pc # "window") => window = job[p].n
          /\ (job[p].pc = "return" /\ job'[p].pc # "return") => frequencies.len = job[p].n]_vars

\* C18 (as claimed): the previous spectrum the Spectrum stage smooths
\* against is the one its own call stored in an earlier cycle.
C18_SmoothedAgainstPreviousCycle ==
    [][(/\ job["SpectrumPlugin"].pc = "smooth"
        /\ job'["SpectrumPlugin"].pc # "smooth"
        /\ previous_spectrum # NoSpectrum)
       => (previous_spectrum.cycle < dcycle
           /\ previous_spectrum.stage = "SpectrumPlugin")]_vars

\* C19 (as claimed): at most one executor call is inside process_samples.
C19_SingleOwner == Cardinality(InProcessSamples) <= 1

\* C20 (as claimed): the centre element of the frequencies array of a
\* delivered spectrum is its center_frequency field.
C20_CentreMatchesAxis ==
    spectrum_data.frequencies.len > 0
    => spectrum_data.frequencies.centre = spectrum_data.center_frequency

\* C21 (as claimed): the center_frequency a spectrum response carries is
\* the centre frequency the tuner was on when the chunk of the response was
\* read.  (The sample rate of the device is written by start() alone, from
\* current_config['sample_rate'], which nothing changes.)
C21_TaggedAsCaptured ==
    response.chunk # 0 => response.center_frequency = captured[response.chunk]

\* A step in which a tune() call is made and raises.
TuneRaised ==
    nCalls' = nCalls + 1 /\ last_call'.op = "tune" /\ last_call'.error # "none"

\* C22 (as claimed): a tune() call that raises leaves the device centre
\* frequency, current_config and the processor's centre frequency as they
\* were.
C22_TuneAllOrNothing ==
    [][TuneRaised => UNCHANGED <<device, current_config, center_frequency>>]_vars

\* C23: a tune() call with a frequency outside MinFrequency..MaxFrequency
\* raises, and the device, current_config and the spectrum processor are as
\* they were before the call.
C23_OutOfRangeRejected ==
    [][(/\ nCalls' = nCalls + 1
        /\ last_call'.op = "tune"
        /\ OutOfRange(last_call'.args[1]))
       => (/\ last_call'.error \in {"ValueError", "RuntimeError"}
           /\ UNCHANGED <<device, current_config, update, fft_size, sample_rate,
                          center_frequency, window, frequencies>>)]_vars

\* An out-of-range tune() has been rejected on the connected controller,
\* tuned to a frequency other than the default by an earlier call.
C23_Witness ==
    /\ is_connected
    /\ last_call.op = "tune"
    /\ last_call.error = "ValueError"
    /\ OutOfRange(last_call.args[1])
    /\ device.center_freq = 1420
    /\ current_config.center_frequency = 1420
    /\ center_frequency = 1420

\* A step in which a set_demodulation() call is made.
SetDemodulationStep == nCalls' = nCalls + 1 /\ last_call'.op = "set_demodulation"

\* C24: a set_demodulation() call whose mode is not in DEMOD_MODES, or whose
\* bandwidth is outside the range of its mode, raises ValueError and leaves
\* demod_config and the demodulator plugin's enabled flag, mode and
\* bandwidth as they were.
C24_InvalidDemodulationRejected ==
    [][(/\ SetDemodulationStep
        /\ \/ last_call'.args[1] \notin DOMAIN DEMOD_MODES
           \/ /\ last_call'.args[2] # None
              /\ ~BandwidthInRange(last_call'.args[1], last_call'.args[2]))
       => (/\ last_call'.error = "ValueError"
           /\ UNCHANGED <<demod_config, mode, bandwidth>>
           /\ enabled'["DemodulatorPlugin"] = enabled["DemodulatorPlugin"])]_vars

\* A call with a bandwidth outside the range of its mode has been rejected
\* after an earlier call had set another mode.
C24_Witness ==
    /\ last_call.op = "set_demodulation"
    /\ last_call.error = "ValueError"
    /\ last_call.args[1] \in DOMAIN DEMOD_MODES
    /\ demod_config.mode \notin {"SPECTRUM", last_call.args[1]}
    /\ enabled["DemodulatorPlugin"]
    /\ mode = demod_config.mode

\* C25 (as claimed): the FFT size of the configuration and the FFT size of
\* the spectrum processor are positive powers of two.
C25_FftSizePowerOfTwo ==
    validate_fft_size(config_fft_size) /\ validate_fft_size(fft_size)

\* C26: every audio chunk the demodulator plugin emits carries the mode that
\* produced it: each sample of the chunk was demodulated in the mode the
\* result is tagged with, across set_demodulation calls between and during
\* cycles.
C26_ChunkTaggedWithItsMode ==
    \A i \in 1..Len(audio_result.audio_samples) :
       audio_result.audio_samples[i].mode = audio_result.mode

\* The appended samples that no stop() has cleared from the buffer.
Kept(s) == s.id \notin dropped

\* C27, as stated: the concatenation of all emitted chunks is always a
\* prefix of the concatenation of all samples appended to the buffer.
C27_EmittedPrefixOfAppended ==
    /\ Len(emitted) <= Len(appended)
    /\ emitted = SubSeq(appended, 1, Len(emitted))

\* A cycle of the demodulator plugin emits a chunk.
EmitsChunk == emitted' # emitted

\* C27, amended: audio accumulation loses and duplicates nothing but what
\* stop() clears.  A chunk is emitted only when the buffer, with the samples
\* of the cycle, holds at least target_chunk_size samples; each emitted
\* chunk has exactly target_chunk_size samples; and the emitted chunks
\* followed by the buffer are all the appended samples, in order, less the
\* samples a stop() cleared from the buffer.
C27_NothingLostOrDuplicated ==
    /\ [](/\ emitted \o audio_buffer = SelectSeq(appended, Kept)
          /\ Len(audio_result.audio_samples) \in {0, target_chunk_size})
    /\ [][EmitsChunk =>
            /\ Len(audio_buffer) + audio.len >= target_chunk_size
            /\ emitted' = emitted \o audio_result'.audio_samples
            /\ Len(audio_result'.audio_samples) = target_chunk_size]_vars

\* A chunk has been emitted that holds samples appended after a stop()
\* cleared a residue from the buffer.
C27_Witness ==
    \E i \in 1..Len(emitted) : \E d \in dropped : emitted[i].id > d

\* C28: get_audio_data returns each assembled audio chunk at most once: no
\* chunk is among the chunks it has returned twice.
C28_ChunkDeliveredAtMostOnce ==
    \A i, j \in 1..Len(delivered) : i # j => delivered[i] # delivered[j]

C30_OutputAtAudioRate ==
    demod_call.pc = "returned" =>
       demod_call.result.len =
          (demod_call.len * audio_sample_rate) \div demod_call.sample_rate

\* C31: every sample of what a demodulator returns has absolute value at
\* most 1.0, whether the AGC ran to its end or fell back to normalising by
\* the peak.
C31_OutputBounded ==
    demod_call.pc = "returned" => demod_call.result.peak <= FullScale

\* A demodulator has returned audio whose peak before the AGC was over full
\* scale and is at full scale after it.
C31_Witness ==
    /\ demod_call.pc = "returned"
    /\ ~demod_call.result.zeros
    /\ ~AgcRaises(demod_call)
    /\ demod_call.amplitude > FullScale
    /\ demod_call.result.peak = FullScale

\* C32: the number of simultaneously connected spectrum clients never
\* exceeds max_spectrum_clients.
C32_SpectrumClientLimit == Len(spectrum_clients) <= max_spectrum_clients

\* C40: in broadcast_spectrum a client whose send fails is in no client
\* list, not among the active connections and not in the statistics, and
\* the broadcast goes on to its return, by which every other client it was
\* begun for has been sent its message.
C40_BroadcastIsolatesFailures ==
    /\ \A w \in broadcast.failed :
          /\ w \notin Members(spectrum_clients)
          /\ w \notin Members(audio_clients)
          /\ w \notin active_connections
          /\ w \notin DOMAIN client_stats
    /\ broadcast.pc = "gather" /\ broadcast.tasks = {} => ENABLED broadcast_return
    /\ broadcast.pc = "returned" =>
          \A w \in broadcast.snapshot \ broadcast.failed :
             broadcast.message \in received[w]

\* A broadcast has returned in which the send to one client failed and
\* another client was sent the message.
C40_Witness ==
    /\ broadcast.pc = "returned"
    /\ broadcast.failed # {}
    /\ \E w \in broadcast.snapshot \ broadcast.failed :
          broadcast.message \in received[w]

\* C33: a retry called with max_retries = n invokes the function at most
\* n + 1 times; it returns on the first invocation that succeeds; and it
\* raises, with the exception of the last invocation, only when n + 1
\* invocations have failed.
C33_BoundedRetry ==
    retry.pc # "idle" =>
       /\ retry.calls <= retry.n + 1
       /\ retry.pc = "returned" => Len(retry.errors) = retry.calls - 1
       /\ retry.pc = "raised" =>
             /\ Len(retry.errors) = retry.n + 1
             /\ retry.raised = retry.errors[Len(retry.errors)]

\* C34: a demodulation call uses one (mode, bandwidth) pair, that of the
\* demod_config snapshot passed in with the chunk of its cycle, whatever
\* set_demodulation does while the call is on the executor.
C34_SettingsOfTheSnapshot ==
    audio # NoAudio =>
       /\ audio.mode = plugin_data.mode
       /\ audio.bandwidth = plugin_data.bandwidth

\* A start() call raises inside its try.
StartFailed == nCalls' # nCalls /\ last_call'.op = "start"

\* The controller is Stopped and would accept a start().
Stopped ==
    /\ ~is_running
    /\ ~is_connected
    /\ sdr = "None"
    /\ AliveThreads = {}
    /\ ~stopping

\* C35: when start() raises inside its try, then afterwards is_running and
\* is_connected are false, the device handle is cleared, no acquisition
\* thread is running and a later start() is accepted.
C35_FailedStartLeavesStopped == [][StartFailed => Stopped']_vars

\* The acquisition worker removes a chunk from the queue (the get_nowait of
\* its `except`).
WorkerDiscards == \E t \in Threads : pc[t] = "full" /\ pc'[t] = "reput"

\* C36: the worker removes a chunk from the queue only when the queue holds
\* maxsize chunks at that moment, and the queue never holds more.
C36_DiscardOnlyOnOverflow ==
    /\ [](Len(data_queue) <= QueueMaxSize)
    /\ [][WorkerDiscards => Len(data_queue) = QueueMaxSize]_vars

\* C37: the Demodulator stage converts to the output rate exactly once: where
\* no numpy or scipy call fails, a chunk of L samples at sample_rate adds
\* floor(L * audio_sample_rate / sample_rate) samples to the audio buffer.
C37_ResampledOnce ==
    (/\ demod_call.pc = "extended"
     /\ demod_call.fault = "none"
     /\ ~demod_call.plugin.raised)
       => demod_call.extended =
             OutputLength(demod_call.plugin.len, rtlsdr_sample_rate, audio_sample_rate)

\* C38: stage counters stay balanced: on every stage with no process() call
\* in progress, call_count = success_count + failure_count.
C38_CountersBalanced ==
    \A p \in PluginNames :
       stage[p] # "running"
          => counters[p].call_count =
                counters[p].success_count + counters[p].failure_count

\* C39: total_failures never exceeds total_executions, so the failure_rate
\* of get_stats, total_failures / max(total_executions, 1), lies in [0, 1].
C39_FailureRateIsARate == total_failures <= total_executions

====
